---- MODULE Spec2Model ----
(***************************************************************************)
(* Model of segmentation/ellipse_fitting.py: the label-consistency         *)
(* criterion of EllipseModelSegm, the RANSAC loop ransac_segm and          *)
(* add_overlap_ellipse.                                                    *)
(*                                                                         *)
(* Numbers.  Coordinates, weights and labels are integers.  The rotation   *)
(* phi is counted in quarter turns, so that sin(phi) and cos(phi) are      *)
(* exact.  Probabilities are pairs <<num, den>> that are powers of 1/2, so *)
(* that -log(p) is an exact integer in units of ln 2.  Python's 0-based    *)
(* index i is the 1-based index i + 1 of a TLA+ sequence.                   *)
(*                                                                         *)
(* Optional values.  Python's None is the empty sequence, a value x that   *)
(* is not None is the one-element sequence <<x>>.                          *)
(***************************************************************************)
EXTENDS Integers, Sequences, FiniteSets, TLC

VARIABLES
    \* ---- the labelled field handed to criterion
    points_all,      \* sequence of <<row, col>>
    weights,         \* sequence of per-point weights
    labels,          \* sequence of per-point labels
    table_prob,      \* 2 x C table of probabilities <<num, den>>
    \* ---- one call of EllipseModelSegm.criterion
    crit_pc,         \* "idle" | "call" | "returned" | "raised"
    el_params,       \* self.params
    crit_out,        \* None, <<residual>>, or <<name of the exception>>
    \* ---- one call of ransac_segm
    pc,              \* "idle" | "start" | "loop" | "final" | "returned" | "raised"
    points,          \* the data set, a sequence of <<row, col>>
    min_samples,     \* an int or a float as passed, the int count after line 206
    max_trials,
    trial,           \* number of loop iterations started so far
    random_idxs,     \* the iteration's sample indices, None before the first
                     \* draw; kept only in a call whose draws are watched
    model,           \* the iteration's model object, None before the first one
    success,         \* the iteration's estimate() result
    model_inliers,   \* the iteration's inlier mask, None if not computed
    model_fit,       \* the iteration's criterion value, None if not computed
    best_model,
    best_model_fit,
    best_inliers,
    best_inlier_num,
    error,           \* None or <<name of the exception raised>>
    \* ---- observation of the call (not program state)
    inliers_from,    \* number of the iteration that computed best_inliers (0: none)
    seen_fits,       \* the criterion values of the successful iterations so far
    nb_residuals,    \* calls of model.residuals so far
    nb_criterion,    \* calls of model.criterion so far
    final_est,       \* None, or <<[pts, ok]>>: the points handed to the final
                     \* estimate() and whether it succeeded
    watch_draws,     \* whether the call keeps random_idxs for observation
    \* ---- one call of add_overlap_ellipse
    ov_pc,           \* "idle" | "call" | "returned" | "raised"
    segm,            \* the canvas: sequence of pixel labels
    segm_in,         \* the canvas as it was when the call started
    ellipse_mask,    \* None (ellipse_params is None), or <<the set of pixels
                     \* (rr, cc) that tl_visu.ellipse gives for ellipse_params>>
    label,
    thr_overlap,     \* <<num, den>>
    \* ---- one call of a prepare_boundary_points_* function
    bp_pc,           \* "idle" | "call" | "returned" | "raised"
    strategy,        \* "none" before the call, then the function called
    seg,             \* the segmentation: a sequence of rows of labels
    centers,         \* sequence of <<row, col>>
    close_points,
    min_diam,
    bp_points,       \* None, or <<the array of all points before they are
                     \* assigned to centers>> (ray_dist, close)
    points_centers,  \* the returned list: a sequence of point sequences
    \* ---- one call of segment_image
    si_pc,           \* "idle" | "call" | "returned" | "raised"
    classif,         \* [has_proba: whether predict_proba is supported,
                     \*  classes_: the class labels]
    si_params,       \* [gc_regul, gc_use_trans, label_transitions (None when
                     \*  the key is missing)]
    slic,            \* the superpixel map: pixel -> superpixel id, 0-based
    proba_ret,       \* observation: None, or <<what predict_proba returned>>
    proba,           \* the local proba after the try block: None or <<matrix>>
    si_segm,         \* the returned segm
    segm_gc,         \* the returned segm_gc
    warned,          \* whether 'not support predict_proba' was logged
    solver_args,     \* None, or <<[proba, regul]>> handed to the solver
    si_error,        \* None or <<name of the exception raised>>
    params_local,    \* None, or <<the parameters of the run at hand>>
    saved_params,    \* None, or <<dict_classif['params'] of the classifier
                     \*  file>>
    way,             \* which function assembled si_params ("none": given)
    \* ---- one run of a batch driver
    b_pc,            \* "idle" | "run" | "done" | "raised"
    driver,          \* "none", or the function that runs the batch
    pooled,          \* whether a pool of workers is used (nb_jobs > 1)
    img_names,       \* image -> the name get_idx_name gives it
    failing,         \* the images on which segment_image raises
    pending,         \* the tasks not yet started
    finished,        \* the tasks a worker has ended, not yet collected
    processed,       \* observation: the images segment_image was called on
    dict_segms,      \* the collected results: a set of <<name, image>>
    collect_order,   \* observation: the tasks in the order the loop of the
                     \*  driver took their results
    \* ---- one training run: main_train and a retraining of the experiments
    tr_pc,           \* "idle" | "start" | "trained" | "retrained" | "raised"
    csv_index,       \* image -> its index in the table of training images
    re_names,        \* observation: the names left in dict_features when
                     \*  the retrained classifier is fitted
    label_hist,      \* image -> the normalised annotation histogram of
                     \*  every superpixel, in percent
    dump,            \* the dumped dictionaries: a set of <<name, [img,
                     \*  labels]>>
    main_fit,        \* observation: None, or <<the <<image, superpixel>> the
                     \*  main classifier was fitted on>>
    held_out,        \* the images handed to the retraining
    re_fit,          \* observation: None, or <<the <<image, superpixel>> the
                     \*  retrained classifier was fitted on>>
    tr_error         \* None or <<name of the exception raised>>

fieldVars == <<points_all, weights, labels, table_prob>>
critVars == <<crit_pc, el_params, crit_out>>
iterVars == <<random_idxs, model, success, model_inliers, model_fit>>
bestVars == <<best_model, best_model_fit, best_inliers, best_inlier_num>>
obsVars == <<inliers_from, seen_fits, nb_residuals, nb_criterion, final_est,
             watch_draws>>
ransacVars == <<pc, points, min_samples, max_trials, trial,
                iterVars, bestVars, error, obsVars>>
overlapVars == <<ov_pc, segm, segm_in, ellipse_mask, label, thr_overlap>>
boundaryVars == <<bp_pc, strategy, seg, centers, close_points, min_diam,
                  bp_points, points_centers>>
segmentVars == <<si_pc, classif, si_params, slic, proba_ret, proba, si_segm,
                 segm_gc, warned, solver_args, si_error, params_local,
                 saved_params, way>>
batchVars == <<b_pc, driver, pooled, img_names, failing, pending, finished,
               processed, dict_segms, collect_order>>
trainVars == <<tr_pc, csv_index, re_names, label_hist, dump, main_fit,
               held_out, re_fit, tr_error>>
restVars == <<boundaryVars, segmentVars, batchVars, trainVars>>
coreVars == <<fieldVars, critVars, ransacVars, overlapVars>>
vars == <<coreVars, restVars>>

None == <<>>
Some(x) == <<x>>

\* a criterion value, or np.inf
PosInf == [inf |-> TRUE, val |-> 0]
Finite(v) == [inf |-> FALSE, val |-> v]

\* min_samples as passed: an int, or a float num/den (quarters are exact
\* binary fractions, so float arithmetic on them is exact)
IntArg(k) == [isfloat |-> FALSE, num |-> k, den |-> 1]
FloatArg(n, d) == [isfloat |-> TRUE, num |-> n, den |-> d]

(***************************************************************************)
(* Bounds of the model.                                                    *)
(***************************************************************************)
MaxWeight == 2
MaxPoints == 2
MaxTrials == 2
MaxPixels == 3
MaxLabel == 2

(***************************************************************************)
(* Helpers: numpy operations used by the code.                             *)
(***************************************************************************)
\* np.sum of a sequence of integers
RECURSIVE SumSeq(_)
SumSeq(s) ==
    IF s = <<>> THEN 0 ELSE Head(s) + SumSeq(Tail(s))

\* np.max of a non-empty sequence of integers
RECURSIVE MaxSeq(_)
MaxSeq(s) ==
    IF Len(s) = 1 THEN s[1]
    ELSE LET m == MaxSeq(Tail(s)) IN IF Head(s) > m THEN Head(s) ELSE m

\* a[mask]: boolean-mask indexing, keeps the order of a
RECURSIVE SelectMask(_, _)
SelectMask(a, mask) ==
    IF a = <<>> THEN <<>>
    ELSE (IF Head(mask) THEN <<Head(a)>> ELSE <<>>)
         \o SelectMask(Tail(a), Tail(mask))

\* np.sin and np.cos of phi quarter turns
SinQ(phi) == <<0, 1, 0, -1>>[(phi % 4) + 1]
CosQ(phi) == <<1, 0, -1, 0>>[(phi % 4) + 1]

\* -np.log(p) in units of ln 2, for p = num/den a power of 1/2
RECURSIVE NegLog(_)
NegLog(p) ==
    IF p[1] >= p[2] THEN 0 ELSE 1 + NegLog(<<2 * p[1], p[2]>>)

(***************************************************************************)
(* EllipseModelSegm.criterion                                              *)
(***************************************************************************)
\* distances <= 1 for one point: ((r cos + c sin)/r_rad)^2 +
\* ((r sin - c cos)/c_rad)^2 <= 1, multiplied out by the positive
\* r_rad^2 * c_rad^2
Inside(p, params) ==
    LET r == p[1] - params.r_org
        c == p[2] - params.c_org
        u == r * CosQ(params.phi) + c * SinQ(params.phi)
        v == r * SinQ(params.phi) - c * CosQ(params.phi)
    IN  u * u * params.c_rad * params.c_rad
          + v * v * params.r_rad * params.r_rad
        <= params.r_rad * params.r_rad * params.c_rad * params.c_rad

\* inside = (distances <= 1), a boolean mask over points
InsideMask(pts, params) ==
    [i \in 1..Len(pts) |-> Inside(pts[i], params)]

\* table_q = -np.log(table_p)
TableQ(table_p) ==
    [i \in 1..Len(table_p) |->
        [j \in 1..Len(table_p[i]) |-> NegLog(table_p[i][j])]]

\* the assertions without the one on the rows of the table
CriterionAsserts_NoRowCheck(pts, wts, lbs, table_p) ==
    /\ Len(pts) = Len(wts)
    /\ Len(wts) = Len(lbs)
    /\ MaxSeq(lbs) < Len(table_p[1])

\* the three assertions at the head of criterion
CriterionAsserts(pts, wts, lbs, table_p) ==
    /\ Len(pts) = Len(wts)
    /\ Len(wts) = Len(lbs)
    /\ Len(table_p) = 2
    /\ MaxSeq(lbs) < Len(table_p[1])

\* the weight taken for an inside point whose label is lb: the code indexes
\* weights by the labels of the inside points, weights[labels_in]
WeightTaken(wts, lbs, i) == wts[lbs[i] + 1]

\* weights[labels_in] raises IndexError for a label beyond len(weights)
CriterionIndexOk(params, pts, wts, lbs) ==
    \A i \in 1..Len(pts) : Inside(pts[i], params) => lbs[i] + 1 <= Len(wts)

\* np.sum(weights[labels_in] * (table_q[0, labels_in] - table_q[1, labels_in]))
CriterionValue(params, pts, wts, lbs, table_p) ==
    LET q == TableQ(table_p)
        inside == InsideMask(pts, params)
        idx == SelectMask([i \in 1..Len(pts) |-> i], inside)
    IN  SumSeq([k \in 1..Len(idx) |->
                 WeightTaken(wts, lbs, idx[k])
                   * (q[1][lbs[idx[k]] + 1] - q[2][lbs[idx[k]] + 1])])

\* the outcome of a call: <<"ok", residual>> or <<"raise", exception>>
criterion(params, pts, wts, lbs, table_p) ==
    IF ~CriterionAsserts(pts, wts, lbs, table_p)
    THEN <<"raise", "AssertionError">>
    ELSE IF ~CriterionIndexOk(params, pts, wts, lbs)
    THEN <<"raise", "IndexError">>
    ELSE <<"ok", CriterionValue(params, pts, wts, lbs, table_p)>>

(***************************************************************************)
(* Inputs.                                                                 *)
(***************************************************************************)
\* the positions of the labelled field: a 2 x 2 grid and one point beside it
FieldPoints == <<
    <<0, 0>>, <<0, 1>>, <<1, 0>>, <<1, 1>>, <<0, 2>> >>

\* ellipse parameters (r_org, c_org, r_rad, c_rad, phi), radii positive
Ellipse(r0, c0, a, b, q) ==
    [r_org |-> r0, c_org |-> c0, r_rad |-> a, c_rad |-> b, phi |-> q]

Ellipses == {
    Ellipse(0, 0, 1, 1, 0),
    Ellipse(1, 1, 1, 1, 0),
    Ellipse(0, 0, 1, 2, 0),
    Ellipse(0, 0, 1, 2, 1) }

\* 2 x 2 probability tables (rows: table_p[0], table_p[1]; columns: classes)
Tables == {
    << << <<1, 8>>, <<1, 2>> >>, << <<1, 2>>, <<1, 8>> >> >>,
    << << <<1, 4>>, <<1, 2>> >>, << <<1, 2>>, <<1, 2>> >> >> }

(***************************************************************************)
(* The variables of a function that is not being called.                   *)
(***************************************************************************)
FieldIdle ==
    /\ points_all = <<>>
    /\ weights = <<>>
    /\ labels = <<>>
    /\ table_prob = <<>>

CritIdle ==
    /\ crit_pc = "idle"
    /\ el_params = None
    /\ crit_out = None

RansacIdle ==
    /\ pc = "idle"
    /\ points = <<>>
    /\ min_samples = IntArg(0)
    /\ max_trials = 0
    /\ trial = 0
    /\ random_idxs = None
    /\ model = None
    /\ success = FALSE
    /\ model_inliers = None
    /\ model_fit = None
    /\ best_model = None
    /\ best_model_fit = PosInf
    /\ best_inliers = None
    /\ best_inlier_num = 0
    /\ error = None
    /\ inliers_from = 0
    /\ seen_fits = {}
    /\ nb_residuals = 0
    /\ nb_criterion = 0
    /\ final_est = None
    /\ watch_draws = FALSE

OverlapIdle ==
    /\ ov_pc = "idle"
    /\ segm = <<>>
    /\ segm_in = <<>>
    /\ ellipse_mask = None
    /\ label = 0
    /\ thr_overlap = <<1, 1>>

BoundaryIdle ==
    /\ bp_pc = "idle"
    /\ strategy = "none"
    /\ seg = <<>>
    /\ centers = <<>>
    /\ close_points = 0
    /\ min_diam = 0
    /\ bp_points = None
    /\ points_centers = <<>>

SegmentIdle ==
    /\ si_pc = "idle"
    /\ classif = None
    /\ si_params = None
    /\ slic = <<>>
    /\ proba_ret = None
    /\ proba = None
    /\ si_segm = <<>>
    /\ segm_gc = <<>>
    /\ warned = FALSE
    /\ solver_args = None
    /\ si_error = None
    /\ params_local = None
    /\ saved_params = None
    /\ way = "none"

BatchIdle ==
    /\ b_pc = "idle"
    /\ driver = "none"
    /\ pooled = FALSE
    /\ img_names = <<>>
    /\ failing = {}
    /\ pending = {}
    /\ finished = {}
    /\ processed = {}
    /\ dict_segms = {}
    /\ collect_order = <<>>

TrainIdle ==
    /\ tr_pc = "idle"
    /\ csv_index = <<>>
    /\ re_names = {}
    /\ label_hist = <<>>
    /\ dump = {}
    /\ main_fit = None
    /\ held_out = <<>>
    /\ re_fit = None
    /\ tr_error = None

RestIdle == BoundaryIdle /\ SegmentIdle /\ BatchIdle /\ TrainIdle

\* the data set of n boundary points handed to ransac_segm
DataPoints(n) == [i \in 1..n |-> <<i - 1, (i - 1) % 2>>]

MinSamplesArgs ==
    {IntArg(k) : k \in {-1, 0, 1, 2}}
    \cup {FloatArg(n, 4) : n \in {-1, 0, 2, 4, 5}}

\* labelled fields handed to ransac_segm; the second one has a label beyond
\* the columns of its table, the third has one weight less than it has points,
\* the fourth a table of three rows
RansacFields == {
    [weights |-> <<1, 2, 1, 1, 1>>, labels |-> <<1, 1, 0, 0, 0>>,
     table |-> << << <<1, 8>>, <<1, 2>> >>, << <<1, 2>>, <<1, 8>> >> >>],
    [weights |-> <<1, 1, 1, 1, 1>>, labels |-> <<0, 1, 2, 0, 0>>,
     table |-> << << <<1, 8>>, <<1, 2>> >>, << <<1, 2>>, <<1, 8>> >> >>],
    [weights |-> <<1, 1, 1, 1>>, labels |-> <<1, 1, 0, 0, 0>>,
     table |-> << << <<1, 8>>, <<1, 2>> >>, << <<1, 2>>, <<1, 8>> >> >>],
    [weights |-> <<1, 1, 1, 1, 1>>, labels |-> <<1, 1, 0, 0, 0>>,
     table |-> << << <<1, 8>>, <<1, 2>> >>, << <<1, 2>>, <<1, 8>> >>,
                  << <<1, 2>>, <<1, 2>> >> >>] }

\* values model.residuals can give for a point
ResidualVals == {0, 1}

(***************************************************************************)
(* A call of EllipseModelSegm.criterion on a labelled field.               *)
(***************************************************************************)
CritInit ==
    /\ points_all = FieldPoints
    /\ weights \in [1..Len(FieldPoints) -> 1..MaxWeight]
    /\ labels \in [1..Len(FieldPoints) -> 0..1]
    /\ table_prob \in Tables
    /\ crit_pc = "call"
    /\ el_params \in {Some(e) : e \in Ellipses}
    /\ crit_out = None
    /\ RansacIdle
    /\ OverlapIdle
    /\ RestIdle

CriterionCall ==
    /\ crit_pc = "call"
    /\ LET out == criterion(el_params[1], points_all, weights, labels,
                            table_prob)
       IN  /\ crit_pc' = IF out[1] = "ok" THEN "returned" ELSE "raised"
           /\ crit_out' = Some(out[2])
    /\ UNCHANGED <<restVars, fieldVars, el_params, ransacVars, overlapVars>>

CritNext == CriterionCall

SpecCriterion == CritInit /\ [][CritNext]_vars

(***************************************************************************)
(* Claims about criterion.                                                 *)
(***************************************************************************)
\* the sum the specification describes: every inside point contributes its
\* own weight times (cost of its label in row 0 - cost of its label in row 1)
RECURSIVE ClaimedSum(_, _)
ClaimedSum(i, q) ==
    IF i = 0 THEN 0
    ELSE ClaimedSum(i - 1, q)
         + (IF Inside(points_all[i], el_params[1])
            THEN weights[i] * (q[1][labels[i] + 1] - q[2][labels[i] + 1])
            ELSE 0)

\* C9: criterion returns the sum, over the points of all_points inside the
\* ellipse, of the weight of that same point times (-log table[0][label] -
\* (-log table[1][label])); points outside contribute nothing.
C9_CriterionWeightsOwnPoint ==
    crit_pc = "returned" =>
        crit_out = Some(ClaimedSum(Len(points_all), TableQ(table_prob)))

(***************************************************************************)
(* ransac_segm                                                             *)
(***************************************************************************)
\* residual_threshold, the default of the signature
residual_threshold == 1

\* a conversion that rounds up
MinSamplesCount_RoundUp(arg, n) ==
    IF arg.isfloat THEN (arg.num * n + arg.den - 1) \div arg.den ELSE arg.num

\* int(min_samples * len(points)) for a float, min_samples itself for an int
\* (int() truncates; for the floats that pass the range test, which are not
\* negative, that is the floor)
MinSamplesCount(arg, n) ==
    IF arg.isfloat THEN (arg.num * n) \div arg.den ELSE arg.num

\* lines 203-206: a float in range is replaced by its count, anything else
\* is left as it is
AfterConversion(arg, n) ==
    IF arg.isfloat /\ 0 <= arg.num /\ arg.num <= arg.den
    THEN IntArg(MinSamplesCount(arg, n))
    ELSE arg

\* the argument checks without the one of max_trials
ArgumentsRejected_NoTrialCheck(arg, n, mt) ==
    \/ arg.isfloat /\ ~(0 <= arg.num /\ arg.num <= arg.den)
    \/ MinSamplesCount(arg, n) < 0

\* the three raise ValueError of the argument checks
ArgumentsRejected(arg, n, mt) ==
    \/ arg.isfloat /\ ~(0 <= arg.num /\ arg.num <= arg.den)
    \/ MinSamplesCount(arg, n) < 0
    \/ mt < 0

\* the loop with an early stop once an inlier was found
LoopContinues_EarlyStop(t, mt, num) == t < mt /\ num < 1

\* for _ in range(max_trials): whether another iteration starts; the inlier
\* number num plays no part
LoopContinues(t, mt, num) == t < mt

\* np.random.randint(0, len(points), min_samples): the arrays it can return
RandomIdxs(n, k) == [1..k -> 0..(n - 1)]

\* whether np.random.randint(0, n, k) can raise ValueError (low >= high); for
\* n = 0 and k = 0 it depends on the numpy version
RandintCanRaise(n, k) == n = 0

\* whether np.random.randint(0, n, k) can return
RandintCanReturn(n, k) == n > 0 \/ k = 0

\* points[random_idxs]
Samples(pts, idxs) == [j \in 1..Len(idxs) |-> pts[idxs[j] + 1]]

\* model = model_class(); model.estimate(samples): whether it can return
\* True.  An empty sample cannot determine an ellipse.
EstimateCanSucceed(samples) == samples /= <<>>

\* the params a successful estimate() can set
EstimateParams == {
    Ellipse(0, 0, 1, 1, 0),
    Ellipse(1, 1, 1, 1, 0),
    Ellipse(0, 0, 1, 2, 0) }

\* a model object: id is the iteration that created it (its identity),
\* params is None until an estimate() succeeded
Model(t, prm) == [id |-> t, params |-> prm]

\* model_residuals < residual_threshold
Inliers(res) == [i \in 1..Len(res) |-> res[i] < residual_threshold]

\* np.sum(model_inliers)
CountTrue(mask) ==
    Cardinality({i \in 1..Len(mask) : mask[i]})

\* model_fit < best_model_fit
FitLess(fit, bestfit) == bestfit.inf \/ fit < bestfit.val

\* the values tracked as best, as one record
Best ==
    [model |-> best_model, fit |-> best_model_fit,
     inliers |-> best_inliers, num |-> best_inlier_num,
     from |-> inliers_from]

SetBest(b) ==
    /\ best_model' = b.model
    /\ best_model_fit' = b.fit
    /\ best_inliers' = b.inliers
    /\ best_inlier_num' = b.num
    /\ inliers_from' = b.from

\* a failed estimate that still takes the model when there is none yet
OnEstimateFailure_TakesModel(b, m) ==
    IF b.model = None THEN [b EXCEPT !.model = Some(m)] ELSE b

\* `continue` after a failed estimate: nothing is assigned
OnEstimateFailure(b, m) == b

\* the final estimate on all points instead of the tracked inliers
FinalPoints_All(pts, mask) == pts

\* points = points[best_inliers], handed to the final estimate()
FinalPoints(pts, mask) == SelectMask(pts, mask)

\* Update as textbook RANSAC does it: the model with the most inliers wins
Update_CountBased(b, m, fit, inl, num) ==
    IF num > b.num \/ b.model = None
    THEN [model |-> Some(m), fit |-> Finite(fit),
          inliers |-> Some(inl), num |-> num, from |-> m.id]
    ELSE b

\* Update with the inlier test beside the criterion test, not inside it
Update_MaskIndependent(b, m, fit, inl, num) ==
    LET b1 == IF FitLess(fit, b.fit)
              THEN [b EXCEPT !.model = Some(m), !.fit = Finite(fit)]
              ELSE b
    IN  IF num > b.num
        THEN [b1 EXCEPT !.inliers = Some(inl), !.num = num, !.from = m.id]
        ELSE b1

\* Update that replaces the mask whenever it replaces the model
Update_MaskWithModel(b, m, fit, inl, num) ==
    IF FitLess(fit, b.fit)
    THEN [model |-> Some(m), fit |-> Finite(fit),
          inliers |-> Some(inl), num |-> num, from |-> m.id]
    ELSE b

\* the update at the end of an iteration that estimated model m with
\* criterion value fit, inlier mask inl and inlier number num
Update(b, m, fit, inl, num) ==
    IF FitLess(fit, b.fit)
    THEN IF num > b.num
         THEN [model |-> Some(m), fit |-> Finite(fit),
               inliers |-> Some(inl), num |-> num, from |-> m.id]
         ELSE [b EXCEPT !.model = Some(m), !.fit = Finite(fit)]
    ELSE b

\* the state at the entry of a call
RansacInit ==
    /\ \E f \in RansacFields :
          /\ points_all = FieldPoints
          /\ weights = f.weights
          /\ labels = f.labels
          /\ table_prob = f.table
    /\ pc = "start"
    /\ points \in {DataPoints(n) : n \in 0..MaxPoints}
    /\ min_samples \in MinSamplesArgs
    /\ max_trials \in -1..MaxTrials
    /\ trial = 0
    /\ random_idxs = None
    /\ model = None
    /\ success = FALSE
    /\ model_inliers = None
    /\ model_fit = None
    /\ best_model = None
    /\ best_inlier_num = 0
    /\ best_model_fit = PosInf
    /\ best_inliers = None
    /\ error = None
    /\ inliers_from = 0
    /\ seen_fits = {}
    /\ nb_residuals = 0
    /\ nb_criterion = 0
    /\ final_est = None
    /\ watch_draws = FALSE
    /\ CritIdle
    /\ OverlapIdle
    /\ RestIdle

\* lines 203-214: the argument checks
Validate ==
    /\ pc = "start"
    /\ IF ArgumentsRejected(min_samples, Len(points), max_trials)
       THEN /\ pc' = "raised"
            /\ error' = Some("ValueError")
       ELSE /\ pc' = "loop"
            /\ UNCHANGED error
    /\ min_samples' = AfterConversion(min_samples, Len(points))
    /\ UNCHANGED <<restVars, fieldVars, critVars, overlapVars, points, max_trials,
                   trial, iterVars, bestVars, obsVars>>

\* line 218, random_idxs = np.random.randint(0, len(points), min_samples):
\* idxs is an array it can return; a watched call keeps the array
Draws(idxs) ==
    /\ idxs \in RandomIdxs(Len(points), min_samples.num)
    /\ random_idxs' = Some(idxs)

\* the arrays line 218 can return on whose samples estimate() can succeed
FittingDraws ==
    {idxs \in RandomIdxs(Len(points), min_samples.num) :
        EstimateCanSucceed(Samples(points, idxs))}

\* the draw of an iteration, one of the arrays of the set ok
DrawFrom(ok) ==
    IF watch_draws
    THEN \E idxs \in ok : Draws(idxs)
    ELSE ok /= {} /\ UNCHANGED random_idxs

\* an iteration in which np.random.randint raises
TrialSampleRaises ==
    /\ pc = "loop"
    /\ LoopContinues(trial, max_trials, best_inlier_num)
    /\ RandintCanRaise(Len(points), min_samples.num)
    /\ trial' = trial + 1
    /\ pc' = "raised"
    /\ error' = Some("ValueError")
    /\ UNCHANGED <<restVars, fieldVars, critVars, overlapVars, points, min_samples,
                   max_trials, iterVars, bestVars, obsVars>>

\* an iteration whose estimate() returns False: continue
TrialEstimateFails ==
    /\ pc = "loop"
    /\ LoopContinues(trial, max_trials, best_inlier_num)
    /\ RandintCanReturn(Len(points), min_samples.num)
    /\ DrawFrom(RandomIdxs(Len(points), min_samples.num))
    /\ model' = Some(Model(trial + 1, None))
    /\ success' = FALSE
    /\ SetBest(OnEstimateFailure(Best, Model(trial + 1, None)))
    /\ trial' = trial + 1
    /\ UNCHANGED <<restVars, fieldVars, critVars, overlapVars, pc, points,
                   min_samples, max_trials, model_inliers, model_fit, error,
                   seen_fits, nb_residuals, nb_criterion, final_est,
                   watch_draws>>

\* an iteration whose estimate() succeeds and whose criterion() raises
TrialCriterionRaises ==
    /\ pc = "loop"
    /\ LoopContinues(trial, max_trials, best_inlier_num)
    /\ RandintCanReturn(Len(points), min_samples.num)
    /\ \E prm \in EstimateParams :
          LET out == criterion(prm, points_all, weights, labels, table_prob)
          IN  /\ out[1] = "raise"
              /\ error' = Some(out[2])
              /\ model' = Some(Model(trial + 1, Some(prm)))
              /\ DrawFrom(FittingDraws)
              /\ \E res \in [1..Len(points) -> ResidualVals] :
                    model_inliers' = Some(Inliers(res))
    /\ success' = TRUE
    /\ trial' = trial + 1
    /\ pc' = "raised"
    /\ nb_residuals' = nb_residuals + 1
    /\ nb_criterion' = nb_criterion + 1
    /\ UNCHANGED <<restVars, fieldVars, critVars, overlapVars, points, min_samples,
                   max_trials, model_fit, bestVars,
                   inliers_from, seen_fits, final_est, watch_draws>>

\* an iteration whose estimate() succeeds: residuals, criterion, update
TrialScored ==
    /\ pc = "loop"
    /\ LoopContinues(trial, max_trials, best_inlier_num)
    /\ RandintCanReturn(Len(points), min_samples.num)
    /\ \E prm \in EstimateParams :
          LET out == criterion(prm, points_all, weights, labels, table_prob)
              m == Model(trial + 1, Some(prm))
          IN  /\ out[1] = "ok"
              /\ model_fit' = Some(out[2])
              /\ seen_fits' = seen_fits \cup {out[2]}
              /\ model' = Some(m)
              /\ DrawFrom(FittingDraws)
              /\ \E res \in [1..Len(points) -> ResidualVals] :
                    LET inl == Inliers(res)
                    IN  /\ model_inliers' = Some(inl)
                        /\ SetBest(Update(Best, m, out[2], inl,
                                           CountTrue(inl)))
    /\ success' = TRUE
    /\ trial' = trial + 1
    /\ nb_residuals' = nb_residuals + 1
    /\ nb_criterion' = nb_criterion + 1
    /\ UNCHANGED <<restVars, fieldVars, critVars, overlapVars, pc, points,
                   min_samples, max_trials, error,
                   final_est, watch_draws>>

\* lines 245-250: the final estimate on the tracked inliers, and the return.
\* The result of best_model.estimate is not looked at; a failing estimate
\* leaves the params as they were.
Finish ==
    /\ pc = "loop"
    /\ ~LoopContinues(trial, max_trials, best_inlier_num)
    /\ IF best_inliers /= None
       THEN LET pts == FinalPoints(points, best_inliers[1])
            IN  \/ /\ final_est' = Some([pts |-> pts, ok |-> FALSE])
                   /\ UNCHANGED best_model
                \/ /\ final_est' = Some([pts |-> pts, ok |-> TRUE])
                   /\ \E prm \in EstimateParams :
                         best_model' =
                            Some([best_model[1] EXCEPT !.params = Some(prm)])
       ELSE UNCHANGED <<final_est, best_model>>
    /\ pc' = "returned"
    /\ UNCHANGED <<restVars, fieldVars, critVars, overlapVars, points, min_samples,
                   max_trials, trial, iterVars, best_model_fit,
                   best_inliers, best_inlier_num, error, inliers_from,
                   seen_fits, nb_residuals, nb_criterion, watch_draws>>

RansacNext ==
    \/ Validate
    \/ TrialSampleRaises
    \/ TrialEstimateFails
    \/ TrialCriterionRaises
    \/ TrialScored
    \/ Finish

SpecRansac == RansacInit /\ [][RansacNext]_vars

\* the scheduling of a call: the interpreter keeps executing it
SpecRansacFair == SpecRansac /\ WF_vars(RansacNext)

\* the entry of a call whose draws are watched: every argument, one point
\* more, at most one iteration
SampleInit ==
    /\ \E f \in RansacFields :
          /\ points_all = FieldPoints
          /\ weights = f.weights
          /\ labels = f.labels
          /\ table_prob = f.table
    /\ pc = "start"
    /\ points \in {DataPoints(n) : n \in 0..(MaxPoints + 1)}
    /\ min_samples \in MinSamplesArgs
    /\ max_trials \in {-1, 0, 1}
    /\ trial = 0
    /\ random_idxs = None
    /\ model = None
    /\ success = FALSE
    /\ model_inliers = None
    /\ model_fit = None
    /\ best_model = None
    /\ best_inlier_num = 0
    /\ best_model_fit = PosInf
    /\ best_inliers = None
    /\ error = None
    /\ inliers_from = 0
    /\ seen_fits = {}
    /\ nb_residuals = 0
    /\ nb_criterion = 0
    /\ final_est = None
    /\ watch_draws = TRUE
    /\ CritIdle
    /\ OverlapIdle
    /\ RestIdle

SpecSample == SampleInit /\ [][RansacNext]_vars

(***************************************************************************)
(* Claims about ransac_segm.                                               *)
(***************************************************************************)
\* the iteration that just ended estimated a model successfully and scored it
ScoredStep ==
    /\ pc = "loop"
    /\ pc' = "loop"
    /\ trial' = trial + 1
    /\ success'

C2_MaskReplacedOnlyIfBetterAndLarger ==
    [][ /\ (best_inliers' /= best_inliers
              \/ best_inlier_num' /= best_inlier_num
              \/ inliers_from' /= inliers_from)
           => /\ ScoredStep
              /\ FitLess(model_fit'[1], best_model_fit)
              /\ CountTrue(model_inliers'[1]) > best_inlier_num
              /\ best_inliers' = model_inliers'
              /\ best_inlier_num' = CountTrue(model_inliers'[1])
              /\ inliers_from' = trial'
        /\ best_inlier_num' >= best_inlier_num
        /\ best_model_fit.inf \/ (~best_model_fit'.inf
                                   /\ best_model_fit'.val <= best_model_fit.val)
      ]_vars

\* C2 witness: a second successful trial replaced the mask of the first one.
C2_Witness ==
    /\ pc = "loop"
    /\ trial = 2
    /\ inliers_from = 2
    /\ best_inlier_num = 2
    /\ Cardinality(seen_fits) = 2
    /\ best_inliers = model_inliers

\* C3: the mask can stem from another trial than the model: a trial that
\* lowers the criterion without exceeding the recorded inlier number
\* replaces the model and keeps the mask, so that the mask is the one of the
\* model's trial or of an earlier one.
C3_ModelReplacedMaskKept ==
    [][ /\ (ScoredStep
              /\ FitLess(model_fit'[1], best_model_fit)
              /\ CountTrue(model_inliers'[1]) <= best_inlier_num)
           => /\ best_model' = model'
              /\ UNCHANGED <<best_inliers, best_inlier_num, inliers_from>>
        /\ best_inliers' /= None
           => /\ best_model' /= None
              /\ inliers_from' \in 1..best_model'[1].id
      ]_vars

\* C3 witness: a call that returned a mask computed in an earlier trial than
\* the one of the returned model.
C3_Witness ==
    /\ pc = "returned"
    /\ best_inliers /= None
    /\ best_model /= None
    /\ inliers_from < best_model[1].id

\* C4 as claimed: whenever a mask is returned the returned model was
\* estimated once more on the points selected by the mask, and the mask is
\* the inlier set of the returned model's trial.
C4_Claimed ==
    (pc = "returned" /\ best_inliers /= None) =>
        /\ final_est /= None
        /\ final_est[1].pts = SelectMask(points, best_inliers[1])
        /\ inliers_from = best_model[1].id

\* C4 amended: on return, when a mask was tracked, estimate() was called on
\* the best model with exactly the points of `points` selected by the
\* returned mask; the model object stays the same; the mask is the inlier
\* set of the model's trial or of an earlier trial.  When no mask was tracked
\* there is no final estimate and the model is untouched.
C4_FinalEstimateOnTrackedMask ==
    [][ (pc = "loop" /\ pc' = "returned") =>
          IF best_inliers /= None
          THEN /\ final_est' /= None
               /\ final_est'[1].pts = SelectMask(points, best_inliers[1])
               /\ best_model'[1].id = best_model[1].id
               /\ inliers_from \in 1..best_model[1].id
               /\ UNCHANGED <<best_inliers, points>>
          ELSE /\ final_est' = None
               /\ best_model' = best_model
               /\ UNCHANGED <<best_inliers, points>>
      ]_vars

\* C4 witness: a call returned after a successful final estimate on a proper
\* part of the points.
C4_Witness ==
    /\ pc = "returned"
    /\ final_est /= None
    /\ final_est[1].ok
    /\ Len(final_est[1].pts) = 1
    /\ Len(points) = 2

\* C5: a call with accepted arguments in which no trial estimated a model
\* (max_trials = 0, or every estimate failed) returns (None, None) and does
\* not raise, also for an empty points set and for min_samples = 0.
C5_NoModelReturnsNoneNone ==
    (pc \in {"returned", "raised"} /\ (pc = "returned" \/ trial > 0)
       /\ nb_residuals = 0) =>
        /\ pc = "returned"
        /\ best_model = None
        /\ best_inliers = None

\* the arguments the claim calls malformed
Malformed ==
    \/ min_samples.isfloat /\ (min_samples.num < 0
                                \/ min_samples.num > min_samples.den)
    \/ ~min_samples.isfloat /\ min_samples.num < 0
    \/ max_trials < 0

C7_FailedEstimateDiscarded ==
    [][ (pc = "loop" /\ model' /= model /\ ~success') =>
          /\ UNCHANGED <<best_model, best_model_fit, best_inliers,
                         best_inlier_num, inliers_from>>
          /\ UNCHANGED <<nb_residuals, nb_criterion, model_inliers,
                         model_fit, seen_fits>>
          /\ trial' = trial + 1
          /\ pc' = "loop"
      ]_vars

\* C7 witness: a failed trial after a successful one, with a trial left.
C7_Witness ==
    /\ pc = "loop"
    /\ ~success
    /\ model /= None
    /\ model[1].id = 2
    /\ best_model /= None
    /\ best_model[1].id = 1
    /\ best_inliers /= None

WholePart(num, den, n) ==
    CHOOSE k \in 0..n : k * den <= num * n /\ num * n < (k + 1) * den

\* C18: a min_samples given as a fraction f in (0, 1] is converted to the
\* count int(f * len(points)), rounded down, an integer min_samples is used
\* as it is, and every trial draws exactly that many indices, each of them in
\* [0, len(points)), with replacement.
C18_SampleCountAndRange ==
    [][ /\ (pc = "start" /\ pc' = "loop") =>
              min_samples' =
                  IF min_samples.isfloat
                  THEN IntArg(WholePart(min_samples.num, min_samples.den,
                                        Len(points)))
                  ELSE min_samples
        /\ (pc = "loop" /\ trial' = trial + 1 /\ model' /= model) =>
              /\ random_idxs' /= None
              /\ Len(random_idxs'[1]) = min_samples.num
              /\ \A j \in 1..Len(random_idxs'[1]) :
                    random_idxs'[1][j] \in 0..(Len(points) - 1)
        /\ pc = "loop" => UNCHANGED <<min_samples, points>>
      ]_vars

\* C18 witness: the fraction 1.0 of three points was converted to three
\* indices per draw, and a draw took the same index three times.
C18_Witness ==
    /\ pc = "returned"
    /\ trial = 1
    /\ Len(points) = 3
    /\ random_idxs = Some(<<2, 2, 2>>)
    /\ best_model /= None

\* a labelled field one of the assertions of criterion rejects
MalformedField ==
    \/ Len(points_all) /= Len(weights)
    \/ Len(points_all) /= Len(labels)
    \/ Len(table_prob) /= 2
    \/ \E i \in 1..Len(labels) : labels[i] >= Len(table_prob[1])

\* C19: criterion raises AssertionError when points, weights and labels
\* differ in length, when the table has not exactly 2 rows, or when the
\* largest label is not below the number of table columns; in ransac_segm an
\* iteration that calls criterion on such a field raises that error to the
\* caller, leaves the best values as they were, and no iteration follows it.
C19_AssertionEndsTheLoop ==
    [][/\ (nb_criterion' /= nb_criterion /\ MalformedField)
            => /\ pc' = "raised"
               /\ error' = Some("AssertionError")
               /\ UNCHANGED bestVars
       /\ pc /= "raised"]_vars

\* C19 witness: the first of two iterations estimated a model and called
\* criterion with one weight less than points; the call of ransac_segm
\* ended there with the AssertionError.
C19_Witness ==
    /\ pc = "raised"
    /\ error = Some("AssertionError")
    /\ success
    /\ trial = 1
    /\ max_trials = 2
    /\ Len(weights) < Len(points_all)

(***************************************************************************)
(* add_overlap_ellipse                                                     *)
(***************************************************************************)
\* the pixels of the canvas, flattened
Pixels == 1..MaxPixels

\* thr_overlap: the default of the signature, 1., and SEGM_OVERLAP, 0.5
ThrValues == {<<1, 1>>, <<1, 2>>}

\* np.sum(segm == lb)
SizeOf(sg, lb) == Cardinality({p \in Pixels : sg[p] = lb})

\* np.sum(np.logical_and(segm == lb, mask == 1))
Overlap(sg, lb, mask) == Cardinality({p \in mask : sg[p] = lb})

\* min(sizes)
MinSize(sg, lb, mask) ==
    IF SizeOf(sg, lb) < Cardinality(mask) THEN SizeOf(sg, lb)
    ELSE Cardinality(mask)

\* ratio > thr_overlap for ratio = float(overlap) / float(min(sizes)), the
\* divisor being positive
RatioAbove(sg, lb, mask, thr) ==
    Overlap(sg, lb, mask) * thr[2] > thr[1] * MinSize(sg, lb, mask)

\* the loop over lb in range(1, max(segm) + 1), from lb on: "raise" at a
\* division by zero, "keep" at a return of the untouched canvas, "draw" when
\* the loop runs out
RECURSIVE OverlapScan(_, _, _, _)
OverlapScan(sg, lb, mask, thr) ==
    IF lb > MaxSeq(sg) THEN "draw"
    ELSE IF MinSize(sg, lb, mask) = 0 THEN "raise"
    ELSE IF RatioAbove(sg, lb, mask, thr) THEN "keep"
    ELSE OverlapScan(sg, lb + 1, mask, thr)

\* a drawing that labels the whole canvas
Draw_Everywhere(sg, mask, lb) == [p \in Pixels |-> lb]

\* segm[mask == 1] = label
Draw(sg, mask, lb) == [p \in Pixels |-> IF p \in mask THEN lb ELSE sg[p]]

OverlapInit ==
    /\ ov_pc = "call"
    /\ segm \in [Pixels -> 0..MaxLabel]
    /\ segm_in = segm
    /\ ellipse_mask \in {None} \cup {Some(m) : m \in SUBSET Pixels}
    /\ label \in 1..MaxLabel
    /\ thr_overlap \in ThrValues
    /\ FieldIdle
    /\ CritIdle
    /\ RansacIdle
    /\ RestIdle

\* one call of add_overlap_ellipse
AddOverlapEllipse ==
    /\ ov_pc = "call"
    /\ IF ellipse_mask = None
       THEN /\ ov_pc' = "returned"
            /\ UNCHANGED segm
       ELSE LET scan == OverlapScan(segm, 1, ellipse_mask[1], thr_overlap)
            IN  /\ ov_pc' = IF scan = "raise" THEN "raised" ELSE "returned"
                /\ segm' = IF scan = "draw"
                           THEN Draw(segm, ellipse_mask[1], label)
                           ELSE segm
    /\ UNCHANGED <<restVars, fieldVars, critVars, ransacVars, segm_in, ellipse_mask,
                   label, thr_overlap>>

OverlapNext == AddOverlapEllipse

SpecOverlap == OverlapInit /\ [][OverlapNext]_vars

(***************************************************************************)
(* Claims about add_overlap_ellipse.                                       *)
(***************************************************************************)
\* the labelled objects of the canvas as it was passed
Objects == {lb \in 1..MaxLabel : SizeOf(segm_in, lb) > 0}

\* the new ellipse lies on an identical or a containing object
OnExistingObject ==
    /\ ellipse_mask[1] /= {}
    /\ \E lb \in Objects : \A p \in ellipse_mask[1] : segm_in[p] = lb

\* C10: a call with an ellipse whose overlap ratio with some existing object
\* is above thr_overlap returns the canvas unchanged, and for every
\* threshold, the default included, an ellipse put on an identical or a
\* containing object changes no pixel.
C10_OverlappingEllipseKeepsCanvas ==
    (ov_pc = "returned" /\ ellipse_mask /= None) =>
        /\ (ellipse_mask[1] /= {}
            /\ \E lb \in Objects :
                  RatioAbove(segm_in, lb, ellipse_mask[1], thr_overlap))
           => segm = segm_in
        /\ OnExistingObject => segm = segm_in

(***************************************************************************)
(* prepare_boundary_points_ray_join, _ray_edge, _ray_mean, _ray_dist and   *)
(* _close.                                                                 *)
(*                                                                         *)
(* A pixel is <<row, col>>, 0-based.  A binary image is the set of its     *)
(* true pixels.  Ray lengths and the coordinates of boundary points are    *)
(* kept doubled (in half pixels), so that the mean of two ray lengths is   *)
(* exact: a ray length is Finite(2 * length) or PosInf, a point is         *)
(* <<2 * row, 2 * col>>.  The functions are called with sel_bg = 0 and     *)
(* sel_fg = 0, that is without morphological opening.                      *)
(***************************************************************************)
MaxCenters == 2

\* the pixels of an image given as a sequence of rows
PixelsOf(sg) == (0..(Len(sg) - 1)) \X (0..(Len(sg[1]) - 1))

\* sg[p]
At(sg, p) == sg[p[1] + 1][p[2] + 1]

Neighbours4(p) ==
    {<<p[1] - 1, p[2]>>, <<p[1] + 1, p[2]>>,
     <<p[1], p[2] - 1>>, <<p[1], p[2] + 1>>}

OnBorder(sg, p) ==
    \/ p[1] = 0
    \/ p[2] = 0
    \/ p[1] = Len(sg) - 1
    \/ p[2] = Len(sg[1]) - 1

\* the false pixels that are 4-connected to reached through false pixels
RECURSIVE Flood(_, _)
Flood(free, reached) ==
    LET more == {p \in free \ reached : Neighbours4(p) \cap reached /= {}}
    IN  IF more = {} THEN reached ELSE Flood(free, reached \cup more)

\* ndimage.morphology.binary_fill_holes(mask): a false pixel stays false
\* when it is connected to the border of the image
binary_fill_holes(sg, mask) ==
    LET free == PixelsOf(sg) \ mask
    IN  PixelsOf(sg) \ Flood(free, {p \in free : OnBorder(sg, p)})

\* split_segm_background_foreground(seg, 0, 0): seg_bg
SegBg(sg) ==
    PixelsOf(sg) \ binary_fill_holes(sg, {p \in PixelsOf(sg) : At(sg, p) > 0})

\* split_segm_background_foreground(seg, 0, 0): seg_fg
SegFg(sg) == {p \in PixelsOf(sg) : At(sg, p) = 1}

\* the directions of the rays: up, right, down, left
Dirs == << <<-1, 0>>, <<0, 1>>, <<1, 0>>, <<0, -1>> >>

\* the pixel k steps from center c in direction d
Step(c, d, k) == <<c[1] + k * d[1], c[2] + k * d[2]>>

\* the steps at which the ray crosses the edge of the binary image: "up" is
\* a step from a false pixel onto a true one, "down" from a true pixel onto
\* a false one
Crossings(sg, mask, c, d, edge) ==
    {k \in 1..(Len(sg) + Len(sg[1])) :
        /\ Step(c, d, k) \in PixelsOf(sg)
        /\ IF edge = "up"
           THEN Step(c, d, k) \in mask /\ Step(c, d, k - 1) \notin mask
           ELSE Step(c, d, k) \notin mask /\ Step(c, d, k - 1) \in mask}

\* the smallest element of a non-empty set of integers
MinOf(S) == CHOOSE k \in S : \A j \in S : k <= j

\* seg_fts.compute_ray_features_segm_2d(mask, center, edge=edge): for every
\* direction the distance to the first crossing, -1 when there is none
compute_ray_features_segm_2d(sg, mask, c, edge) ==
    [j \in 1..Len(Dirs) |->
        LET hits == Crossings(sg, mask, c, Dirs[j], edge)
        IN  IF hits = {} THEN Finite(-2) ELSE Finite(2 * MinOf(hits))]

\* v < x for a ray length v and a number of pixels x
RayLess(v, x) == ~v.inf /\ v.val < 2 * x

\* ray[ray < min_diam] = min_diam
RaiseToMinDiam(ray, md) ==
    [j \in 1..Len(ray) |-> IF RayLess(ray[j], md) THEN Finite(2 * md)
                           ELSE ray[j]]

\* rays[rays < 0] = np.inf
NotFoundToInf(ray) ==
    [j \in 1..Len(ray) |-> IF RayLess(ray[j], 0) THEN PosInf ELSE ray[j]]

\* a pixel as a point
Twice(c) == <<2 * c[1], 2 * c[2]>>

\* the point at the end of a ray of length v from center c in direction d
RayPoint(c, d, v) == <<2 * c[1] + v * d[1], 2 * c[2] + v * d[2]>>

\* seg_fts.reconstruct_ray_features_2d(center, ray): the end points of the
\* rays that have a length
RECURSIVE ReconstructFrom(_, _, _)
ReconstructFrom(c, ray, j) ==
    IF j > Len(ray) THEN <<>>
    ELSE (IF ray[j].inf \/ ray[j].val < 0 THEN <<>>
          ELSE <<RayPoint(c, Dirs[j], ray[j].val)>>)
         \o ReconstructFrom(c, ray, j + 1)

reconstruct_ray_features_2d(c, ray) == ReconstructFrom(c, ray, 1)

\* the squared Euclidean distance of two points
Dist2(p, q) ==
    (p[1] - q[1]) * (p[1] - q[1]) + (p[2] - q[2]) * (p[2] - q[2])

\* two points closer to each other than thr pixels
Closer(p, q, thr) == Dist2(p, q) < 4 * thr * thr

\* seg_fts.reduce_close_points(points, thr): a point is dropped when it is
\* closer than thr to a point kept before it
RECURSIVE ReduceFrom(_, _, _)
ReduceFrom(pts, kept, thr) ==
    IF pts = <<>> THEN kept
    ELSE ReduceFrom(Tail(pts),
                    IF \E i \in 1..Len(kept) : Closer(Head(pts), kept[i], thr)
                    THEN kept ELSE Append(kept, Head(pts)),
                    thr)

reduce_close_points(pts, thr) == ReduceFrom(pts, <<>>, thr)

\* prepare_boundary_points_ray_join, the body of the loop: the points of the
\* background crossings and of the foreground crossings, each reduced on
\* its own, stacked
RayJoinPoints(sg, c, cp, md) ==
    LET ray_bg == RaiseToMinDiam(
                      compute_ray_features_segm_2d(sg, SegBg(sg), c, "up"), md)
        points_bg == reduce_close_points(
                         reconstruct_ray_features_2d(c, ray_bg), cp)
        ray_fc == RaiseToMinDiam(
                      compute_ray_features_segm_2d(sg, SegFg(sg), c, "down"),
                      md)
        points_fc == reduce_close_points(
                         reconstruct_ray_features_2d(c, ray_fc), cp)
    IN  points_bg \o points_fc

\* rays = np.array([ray_bg, ray_fc]); rays[rays < 0] = np.inf;
\* rays[rays < min_diam] = min_diam
EdgeRays(sg, c, md) ==
    << RaiseToMinDiam(NotFoundToInf(
           compute_ray_features_segm_2d(sg, SegBg(sg), c, "up")), md),
       RaiseToMinDiam(NotFoundToInf(
           compute_ray_features_segm_2d(sg, SegFg(sg), c, "down")), md) >>

\* the larger of the two rays, a not found one being the largest
RayMin_Max(rays) ==
    [j \in 1..Len(rays[1]) |->
        IF rays[1][j].inf \/ rays[2][j].inf THEN PosInf
        ELSE IF rays[2][j].val < rays[1][j].val THEN rays[1][j]
        ELSE rays[2][j]]

\* np.min(rays, axis=0)
RayMin(rays) ==
    [j \in 1..Len(rays[1]) |->
        IF rays[1][j].inf THEN rays[2][j]
        ELSE IF rays[2][j].inf THEN rays[1][j]
        ELSE IF rays[2][j].val < rays[1][j].val THEN rays[2][j]
        ELSE rays[1][j]]

\* np.mean(rays, axis=0): infinite as soon as one of the two is
RayMean(rays) ==
    [j \in 1..Len(rays[1]) |->
        IF rays[1][j].inf \/ rays[2][j].inf THEN PosInf
        ELSE Finite((rays[1][j].val + rays[2][j].val) \div 2)]

\* prepare_boundary_points_ray_edge, the body of the loop
RayEdgePoints(sg, c, cp, md) ==
    LET ray_close == RayMin(EdgeRays(sg, c, md))
    IN  reduce_close_points(reconstruct_ray_features_2d(c, ray_close), cp)

\* the smaller of the two rays in every direction, no mean
RayMeanOrMin_MinOnly(rays) == RayMin(rays)

\* ray_mean[np.isinf(ray_mean)] = ray_min[np.isinf(ray_mean)]
RayMeanOrMin(rays) ==
    LET ray_min == RayMin(rays)
        ray_mean == RayMean(rays)
    IN  [j \in 1..Len(ray_mean) |->
            IF ray_mean[j].inf THEN ray_min[j] ELSE ray_mean[j]]

\* prepare_boundary_points_ray_mean, the body of the loop
RayMeanPoints(sg, c, cp, md) ==
    LET ray_mean == RayMeanOrMin(EdgeRays(sg, c, md))
    IN  reduce_close_points(reconstruct_ray_features_2d(c, ray_mean), cp)

\* points = np.array((0, np.asarray(centers).shape[1])): the array holding
\* the two numbers 0 and 2, which np.vstack takes as the row (0, 2)
InitialPoints(cs) == << <<2 * 0, 2 * Len(cs[1])>> >>

\* prepare_boundary_points_ray_dist, the first loop: the reduced points of
\* every center stacked under pts
RECURSIVE RayDistStack(_, _, _, _)
RayDistStack(sg, cs, cp, pts) ==
    IF cs = <<>> THEN pts
    ELSE LET ray == compute_ray_features_segm_2d(sg, SegBg(sg), Head(cs),
                                                 "up")
             points_bg == reduce_close_points(
                              reconstruct_ray_features_2d(Head(cs), ray), cp)
         IN  RayDistStack(sg, Tail(cs), cp, pts \o points_bg)

\* an argmin that takes the last of the centers at minimal distance
ArgMinCenter_Last(p, cs) ==
    (CHOOSE i \in 1..Len(cs) :
        /\ \A j \in 1..Len(cs) :
              Dist2(p, Twice(cs[i]))
              <= Dist2(p, Twice(cs[j]))
        /\ \A j \in (i + 1)..Len(cs) :
              Dist2(p, Twice(cs[i]))
              < Dist2(p, Twice(cs[j]))) - 1

\* np.argmin(dists, axis=1) for one point of dists = cdist(points, centers):
\* the first center at minimal distance, 0-based
ArgMinCenter(p, cs) ==
    (CHOOSE i \in 1..Len(cs) :
        /\ \A j \in 1..Len(cs) :
              Dist2(p, Twice(cs[i]))
              <= Dist2(p, Twice(cs[j]))
        /\ \A j \in 1..(i - 1) :
              Dist2(p, Twice(cs[i]))
              < Dist2(p, Twice(cs[j]))) - 1

\* close_center = np.argmin(dists, axis=1)
CloseCenter(pts, cs) == [k \in 1..Len(pts) |-> ArgMinCenter(pts[k], cs)]

\* for i in range(close_center.max() + 1):
\*     points_centers.append(points[close_center == i])
AssignToCenters(pts, cs) ==
    LET close_center == CloseCenter(pts, cs)
    IN  [i \in 1..(MaxSeq(close_center) + 1) |->
            SelectMask(pts, [k \in 1..Len(pts) |-> close_center[k] = i - 1])]

\* seg_spx.segment_slic_img2d and seg_spx.superpixel_centers: the
\* superpixels are the single pixels, in raster order
SuperpixelCenters(sg) ==
    [k \in 1..(Len(sg) * Len(sg[1])) |->
        <<(k - 1) \div Len(sg[1]), (k - 1) % Len(sg[1])>>]

\* seg_spx.make_graph_segm_connect2d_conn4: the pairs of superpixels that
\* touch, each pair once
SuperpixelEdges(sg) ==
    LET ctr == SuperpixelCenters(sg)
    IN  {e \in (1..Len(ctr)) \X (1..Len(ctr)) :
            e[1] < e[2] /\ ctr[e[2]] \in Neighbours4(ctr[e[1]])}

\* filter_boundary_points: the centers of the background superpixels with a
\* neighbour that is not background and of the superpixels of label 1 with
\* a background neighbour
filter_boundary_points(sg, ctr, edges) ==
    LET lbs == [v \in 1..Len(ctr) |-> At(sg, ctr[v])]
        nbrs(v) == {w \in 1..Len(ctr) : <<v, w>> \in edges
                                        \/ <<w, v>> \in edges}
        zero(v) == Cardinality({w \in nbrs(v) : lbs[w] = 0})
        filter_bg(v) == lbs[v] = 0 /\ nbrs(v) /= {}
                        /\ zero(v) < Cardinality(nbrs(v))
        filter_fc(v) == lbs[v] = 1 /\ nbrs(v) /= {} /\ zero(v) > 0
    IN  SelectMask([v \in 1..Len(ctr) |-> Twice(ctr[v])],
                   [v \in 1..Len(ctr) |-> filter_bg(v) \/ filter_fc(v)])

\* the segmentations: an object of label 1, an object of label 2, two
\* objects of label 1 with a background column between them, an empty
\* image, a ring of label 1 around a hole, and an object of label 1 that
\* touches one of label 2
BoundarySegs == {
    << <<0, 0, 0, 0, 0>>, <<0, 1, 1, 2, 0>>, <<0, 0, 0, 0, 0>> >>,
    << <<0, 0, 0, 0, 0>>, <<0, 1, 1, 1, 0>>, <<0, 0, 0, 0, 0>> >>,
    << <<0, 0, 0, 0, 0>>, <<0, 2, 2, 2, 0>>, <<0, 0, 0, 0, 0>> >>,
    << <<0, 0, 0, 0, 0>>, <<0, 1, 0, 1, 0>>, <<0, 0, 0, 0, 0>> >>,
    << <<0, 0, 0, 0, 0>>, <<0, 0, 0, 0, 0>>, <<0, 0, 0, 0, 0>> >>,
    << <<1, 1, 1, 0, 0>>, <<1, 0, 1, 0, 0>>, <<1, 1, 1, 0, 0>> >> }

\* the positions a center can have
CenterPositions == {<<1, 1>>, <<1, 2>>, <<1, 3>>, <<0, 4>>}

\* the lists of centers, the empty list included
CenterLists ==
    UNION {[1..n -> CenterPositions] : n \in 0..MaxCenters}

BoundaryInit ==
    /\ bp_pc = "call"
    /\ strategy = "none"
    /\ seg \in BoundarySegs
    /\ centers \in CenterLists
    /\ close_points \in {1, 2}
    /\ min_diam \in {0, 1, 2}
    /\ bp_points = None
    /\ points_centers = <<>>
    /\ FieldIdle
    /\ CritIdle
    /\ RansacIdle
    /\ OverlapIdle
    /\ SegmentIdle
    /\ BatchIdle
    /\ TrainIdle

\* the three functions with a loop `for center in centers` that appends one
\* array per center
PerCenter(name, sg, c, cp, md) ==
    CASE name = "ray_join" -> RayJoinPoints(sg, c, cp, md)
      [] name = "ray_edge" -> RayEdgePoints(sg, c, cp, md)
      [] name = "ray_mean" -> RayMeanPoints(sg, c, cp, md)

\* a call of prepare_boundary_points_ray_join, _ray_edge or _ray_mean
PrepareRayPerCenter ==
    /\ bp_pc = "call"
    /\ \E name \in {"ray_join", "ray_edge", "ray_mean"} :
          /\ strategy' = name
          /\ points_centers' =
                [i \in 1..Len(centers) |->
                    PerCenter(name, seg, centers[i], close_points, min_diam)]
    /\ bp_pc' = "returned"
    /\ UNCHANGED <<coreVars, segmentVars, batchVars, trainVars, seg,
                   centers, close_points, min_diam, bp_points>>

\* a call of prepare_boundary_points_ray_dist; np.asarray(centers).shape[1]
\* raises IndexError for an empty list of centers
PrepareRayDist ==
    /\ bp_pc = "call"
    /\ strategy' = "ray_dist"
    /\ IF centers = <<>>
       THEN /\ bp_pc' = "raised"
            /\ UNCHANGED <<bp_points, points_centers>>
       ELSE LET pts == RayDistStack(seg, centers, close_points,
                                    InitialPoints(centers))
            IN  /\ bp_points' = Some(pts)
                /\ points_centers' = AssignToCenters(pts, centers)
                /\ bp_pc' = "returned"
    /\ UNCHANGED <<coreVars, segmentVars, batchVars, trainVars, seg,
                   centers, close_points, min_diam>>

\* a call of prepare_boundary_points_close; cdist raises ValueError for an
\* empty list of centers, close_center.max() for an empty points_all
PrepareClose ==
    /\ bp_pc = "call"
    /\ strategy' = "close"
    /\ LET pts == filter_boundary_points(seg, SuperpixelCenters(seg),
                                         SuperpixelEdges(seg))
       IN  IF centers = <<>>
           THEN /\ bp_pc' = "raised"
                /\ UNCHANGED <<bp_points, points_centers>>
           ELSE IF pts = <<>>
           THEN /\ bp_pc' = "raised"
                /\ bp_points' = Some(pts)
                /\ UNCHANGED points_centers
           ELSE /\ bp_points' = Some(pts)
                /\ points_centers' = AssignToCenters(pts, centers)
                /\ bp_pc' = "returned"
    /\ UNCHANGED <<coreVars, segmentVars, batchVars, trainVars, seg,
                   centers, close_points, min_diam>>

BoundaryNext ==
    \/ PrepareRayPerCenter
    \/ PrepareRayDist
    \/ PrepareClose

SpecBoundary == BoundaryInit /\ [][BoundaryNext]_vars

(***************************************************************************)
(* Claims about the boundary points.                                       *)
(***************************************************************************)
\* p lies at the end of a ray cast from center c: on the row or the column
\* of c
OnRayOf(p, c) ==
    \E j \in 1..Len(Dirs) : \E v \in 0..(2 * (Len(seg) + Len(seg[1]))) :
        p = RayPoint(c, Dirs[j], v)

\* the center with the lowest index among those nearest to p, 0-based
NearestCenter(p) ==
    CHOOSE i \in 0..(Len(centers) - 1) :
        \A j \in 0..(Len(centers) - 1) :
            \/ Dist2(p, Twice(centers[i + 1])) < Dist2(p, Twice(centers[j + 1]))
            \/ /\ Dist2(p, Twice(centers[i + 1]))
                  = Dist2(p, Twice(centers[j + 1]))
               /\ i <= j

\* the points of all returned sets, set after set
RECURSIVE Flatten(_)
Flatten(ss) == IF ss = <<>> THEN <<>> ELSE Head(ss) \o Flatten(Tail(ss))

\* no center is given twice
DistinctCenters ==
    \A a, b \in 1..Len(centers) : a /= b => centers[a] /= centers[b]

\* C11: every strategy returns one point set per center, in the order of
\* the centers: the list has the length of centers, also when some center
\* ends up with no point.
C11_OneSetPerCenter ==
    (bp_pc = "returned" /\ DistinctCenters) =>
        Len(points_centers) = Len(centers)

\* C12 as claimed: when several centers are given, every strategy puts
\* every point into the set of the center at minimal Euclidean distance, the
\* lowest index winning a tie.
C12_Claimed ==
    (bp_pc = "returned" /\ Len(centers) > 1 /\ DistinctCenters) =>
        \A i \in 1..Len(points_centers) :
            \A k \in 1..Len(points_centers[i]) :
                NearestCenter(points_centers[i][k]) = i - 1

\* C12 amended: prepare_boundary_points_ray_dist and _close put every row of
\* the array of all points into exactly one returned set, the one of the
\* center at minimal Euclidean distance, the lowest index winning a tie, and
\* keep the order of the rows; _ray_join, _ray_edge and _ray_mean assign no
\* point by distance: the i-th set holds points at the end of rays cast
\* from the i-th center, whichever center is nearest to them.
C12_NearestCenterWhereAssigned ==
    bp_pc = "returned" =>
        IF strategy \in {"ray_dist", "close"}
        THEN /\ bp_points /= None
             /\ \A k \in 1..Len(bp_points[1]) :
                   NearestCenter(bp_points[1][k]) < Len(points_centers)
             /\ \A i \in 1..Len(points_centers) :
                   points_centers[i] =
                       SelectMask(bp_points[1],
                                  [k \in 1..Len(bp_points[1]) |->
                                      NearestCenter(bp_points[1][k]) = i - 1])
             /\ Len(Flatten(points_centers)) = Len(bp_points[1])
        ELSE /\ bp_points = None
             /\ Len(points_centers) = Len(centers)
             /\ \A i \in 1..Len(points_centers) :
                   \A k \in 1..Len(points_centers[i]) :
                       OnRayOf(points_centers[i][k], centers[i])

\* C12 witness: ray_dist returned two non-empty sets for two different
\* centers, and a point as far from the one as from the other is in the
\* first set.
C12_Witness ==
    /\ bp_pc = "returned"
    /\ strategy = "ray_dist"
    /\ Len(centers) = 2
    /\ centers[1] /= centers[2]
    /\ Len(points_centers) = 2
    /\ points_centers[2] /= <<>>
    /\ \E k \in 1..Len(points_centers[1]) :
          Dist2(points_centers[1][k], Twice(centers[1]))
          = Dist2(points_centers[1][k], Twice(centers[2]))

\* C13: no point set returned by a strategy with a close_points threshold
\* holds two points closer to each other than close_points.
C13_NoTwoPointsCloser ==
    (bp_pc = "returned" /\ strategy /= "close") =>
        \A i \in 1..Len(points_centers) :
            \A k, l \in 1..Len(points_centers[i]) :
                k < l => ~Closer(points_centers[i][k], points_centers[i][l],
                                 close_points)

\* p is the end of a ray cast from one of the centers to the first crossing
\* from the object into the background
AtBackgroundCrossing(p) ==
    \E i \in 1..Len(centers) : \E j \in 1..Len(Dirs) :
        LET hits == Crossings(seg, SegBg(seg), centers[i], Dirs[j], "up")
        IN  hits /= {} /\ p = RayPoint(centers[i], Dirs[j], 2 * MinOf(hits))

\* C20: every point returned by prepare_boundary_points_ray_dist is the end
\* of a ray cast from one of the centers to the background crossing of the
\* mask; no other point is returned.
C20_RayDistPointsStemFromRays ==
    (bp_pc = "returned" /\ strategy = "ray_dist") =>
        \A i \in 1..Len(points_centers) :
            \A k \in 1..Len(points_centers[i]) :
                AtBackgroundCrossing(points_centers[i][k])

\* the crossings of the ray from center c in direction j: the steps to the
\* first pixel of the background, and to the first pixel after the object
BgCrossings(c, j) == Crossings(seg, SegBg(seg), c, Dirs[j], "up")
FgCrossings(c, j) == Crossings(seg, SegFg(seg), c, Dirs[j], "down")

\* the length of a found crossing, raised to min_diam, in half pixels
RaisedLength(hits) ==
    IF MinOf(hits) < min_diam THEN 2 * min_diam ELSE 2 * MinOf(hits)

\* the points at the ends of the rays from c of the lengths lens, one per
\* direction, None standing for an infinite length: taken in the order of
\* the directions and reduced by close_points
PointsOfLengths(c, lens) ==
    LET RECURSIVE From(_)
        From(j) ==
            IF j > Len(Dirs) THEN <<>>
            ELSE (IF lens[j] = None THEN <<>>
                  ELSE <<RayPoint(c, Dirs[j], lens[j][1])>>) \o From(j + 1)
    IN  reduce_close_points(From(1), close_points)

\* the ray length C21 gives for direction j: the nearer of the found
\* crossings
NearestCrossing(c, j) ==
    LET bg == BgCrossings(c, j)
        fg == FgCrossings(c, j)
    IN  IF bg = {} /\ fg = {} THEN None
        ELSE IF bg = {} THEN Some(RaisedLength(fg))
        ELSE IF fg = {} THEN Some(RaisedLength(bg))
        ELSE IF RaisedLength(bg) <= RaisedLength(fg)
        THEN Some(RaisedLength(bg))
        ELSE Some(RaisedLength(fg))

\* C21: prepare_boundary_points_ray_edge takes in every direction the
\* nearest crossing only: the smaller of the background and the foreground
\* crossing, a crossing not found counting as infinitely far and a found one
\* shorter than min_diam being raised to min_diam first; a direction without
\* any crossing keeps an infinite length and gives no point.
C21_RayEdgeTakesNearestCrossing ==
    (bp_pc = "returned" /\ strategy = "ray_edge") =>
        /\ Len(points_centers) = Len(centers)
        /\ \A i \in 1..Len(centers) :
              points_centers[i] =
                  PointsOfLengths(centers[i],
                                  [j \in 1..Len(Dirs) |->
                                      NearestCrossing(centers[i], j)])

\* C21 witness: from the one center the foreground crossing to the right is
\* nearer than the background crossing, the crossing upwards is shorter
\* than min_diam, and the returned points lie at these lengths.
C21_Witness ==
    /\ bp_pc = "returned"
    /\ strategy = "ray_edge"
    /\ centers = << <<1, 1>> >>
    /\ min_diam = 2
    /\ FgCrossings(centers[1], 2) = {2}
    /\ BgCrossings(centers[1], 2) = {3}
    /\ BgCrossings(centers[1], 1) = {1}
    /\ \E k \in 1..Len(points_centers[1]) : points_centers[1][k] = <<2, 6>>
    /\ \E k \in 1..Len(points_centers[1]) : points_centers[1][k] = <<-2, 2>>

\* the ray length C22 gives for direction j: the mean of the two found
\* crossings, or the one found crossing
MeanOfFound(c, j) ==
    LET bg == BgCrossings(c, j)
        fg == FgCrossings(c, j)
    IN  IF bg = {} /\ fg = {} THEN None
        ELSE IF bg = {} THEN Some(RaisedLength(fg))
        ELSE IF fg = {} THEN Some(RaisedLength(bg))
        ELSE Some((RaisedLength(bg) + RaisedLength(fg)) \div 2)

\* C22: prepare_boundary_points_ray_mean takes in every direction the mean
\* of the background and the foreground crossing, each raised to at least
\* min_diam, when both were found, and the one found crossing when exactly
\* one was found; a crossing not found never enters a mean.
C22_RayMeanOfFoundCrossings ==
    (bp_pc = "returned" /\ strategy = "ray_mean") =>
        /\ Len(points_centers) = Len(centers)
        /\ \A i \in 1..Len(centers) :
              points_centers[i] =
                  PointsOfLengths(centers[i],
                                  [j \in 1..Len(Dirs) |->
                                      MeanOfFound(centers[i], j)])

\* C22 witness: to the right of the first center the foreground crossing
\* is at 2 and the background crossing at 3, and the returned point lies at
\* 2.5; upwards of the second center, which is on the object of label 2,
\* only the background crossing is found, and the point lies there.
C22_Witness ==
    /\ bp_pc = "returned"
    /\ strategy = "ray_mean"
    /\ centers = << <<1, 1>>, <<1, 3>> >>
    /\ min_diam = 0
    /\ FgCrossings(centers[1], 2) = {2}
    /\ BgCrossings(centers[1], 2) = {3}
    /\ FgCrossings(centers[2], 1) = {}
    /\ BgCrossings(centers[2], 1) = {1}
    /\ \E k \in 1..Len(points_centers[1]) : points_centers[1][k] = <<2, 7>>
    /\ \E k \in 1..Len(points_centers[2]) : points_centers[2][k] = <<0, 6>>

(***************************************************************************)
(* segment_image of run_segm_slic_classif_graphcut.py.                     *)
(*                                                                         *)
(* The image has one pixel more than it has superpixels.  A probability is *)
(* a number of quarters.  The calls into the file system (load_image, the  *)
(* saving of the segmentations) can fail.                                  *)
(***************************************************************************)
MaxSuperpixels == 2

\* seg_spx.segment_slic_img2d: the first two pixels form superpixel 0, every
\* further pixel is a superpixel of its own
SlicMap(k) == [p \in 1..(k + 1) |-> IF p = 1 THEN 0 ELSE p - 2]

\* a[slic]: the value of every pixel's superpixel
TakeBySlic(a, sl) == [p \in 1..Len(sl) |-> a[sl[p] + 1]]

\* the rows classif.predict_proba can give for a superpixel: P(class 0),
\* P(class 1)
ProbaRows == {<<1, 3>>, <<3, 1>>, <<2, 2>>}

\* np.argmax of a row: the first index of its maximum, 0-based
ArgMax(row) ==
    (CHOOSE i \in 1..Len(row) :
        /\ \A j \in 1..Len(row) : row[j] <= row[i]
        /\ \A j \in 1..(i - 1) : row[j] < row[i]) - 1

\* where a call can fail in the file system: nowhere, before the try block
\* (load_image, the saving of segm), in np.savez_compressed inside the try
\* block, after the graph cut (the saving of segm_gc)
IoFailures == {"none", "early", "savez", "late"}

\* the try block of lines 338-347: the value of proba after it.  The bare
\* except catches the missing predict_proba and the failing savez alike.
ProbaAfterTry(ret, io) ==
    IF ret = None \/ io = "savez" THEN None ELSE ret

\* line 350: whether the graph cut is run
RunsGraphCut(pr, prm) == pr /= None /\ prm.gc_regul > 0

\* seg_gc.compute_pairwise_cost_from_transitions(label_transitions)
compute_pairwise_cost_from_transitions(trans) == [cost_of |-> trans]

\* the penalty matrix alone, that is 1 times the matrix
Regul_MatrixAlone(prm) ==
    IF prm.gc_use_trans
    THEN [gc_regul |-> 1,
          times |-> Some(compute_pairwise_cost_from_transitions(
                             prm.label_transitions[1]))]
    ELSE [gc_regul |-> prm.gc_regul, times |-> None]

\* lines 351-355: the regularisation handed to the solver, the scalar
\* gc_regul or the product gc_regul * label_penalty, kept as its two factors
Regul(prm) ==
    IF prm.gc_use_trans
    THEN [gc_regul |-> prm.gc_regul,
          times |-> Some(compute_pairwise_cost_from_transitions(
                             prm.label_transitions[1]))]
    ELSE [gc_regul |-> prm.gc_regul, times |-> None]

\* line 384: np.zeros(segm.shape)
Zeros(sg) == [p \in 1..Len(sg) |-> 0]

\* the class labels of a classifier
ClassesOf(clf) == {clf.classes_[i] : i \in 1..Len(clf.classes_)}

SegmentInit ==
    /\ si_pc = "call"
    /\ classif \in {[has_proba |-> h, classes_ |-> cl] :
                       h \in BOOLEAN, cl \in {<<0, 1>>, <<1, 2>>}}
    /\ si_params \in {[gc_regul |-> g, gc_use_trans |-> u,
                       label_transitions |-> t] :
                         g \in {0, 1, 2}, u \in BOOLEAN,
                         t \in {None, Some(<<<<3, 1>>, <<1, 3>>>>)}}
    /\ slic = SlicMap(MaxSuperpixels)
    /\ proba_ret = None
    /\ proba = None
    /\ si_segm = <<>>
    /\ segm_gc = <<>>
    /\ warned = FALSE
    /\ solver_args = None
    /\ si_error = None
    /\ params_local = None
    /\ saved_params = None
    /\ way = "none"
    /\ FieldIdle
    /\ CritIdle
    /\ RansacIdle
    /\ OverlapIdle
    /\ BoundaryIdle
    /\ BatchIdle
    /\ TrainIdle

\* one call of segment_image: lbs is what classif.predict returns, pm what
\* classif.predict_proba returns when it is supported, lgc what the graph
\* cut solver returns, io where the file system fails
SegmentImage ==
    /\ si_pc = "call"
    /\ \E io \in IoFailures :
       \E lbs \in [1..MaxSuperpixels -> ClassesOf(classif)] :
       \E pm \in [1..MaxSuperpixels -> ProbaRows] :
       \E lgc \in [1..MaxSuperpixels -> 0..(Len(classif.classes_) - 1)] :
          LET ret == IF classif.has_proba THEN Some(pm) ELSE None
              pr == ProbaAfterTry(ret, io)
              runs == RunsGraphCut(pr, si_params)
              keyerr == runs /\ si_params.gc_use_trans
                        /\ si_params.label_transitions = None
              exc == IF io = "early" THEN Some("IOError")
                     ELSE IF keyerr THEN Some("KeyError")
                     ELSE IF runs /\ io = "late" THEN Some("IOError")
                     ELSE None
          IN  /\ si_error' = exc
              /\ si_pc' = IF exc = None THEN "returned" ELSE "raised"
              /\ proba_ret' = IF io = "early" THEN None ELSE ret
              /\ proba' = IF io = "early" THEN None ELSE pr
              /\ warned' = (io /= "early" /\ pr = None)
              /\ solver_args' =
                    IF io /= "early" /\ runs /\ ~keyerr
                    THEN Some([proba |-> pr[1], regul |-> Regul(si_params)])
                    ELSE None
              /\ si_segm' = IF exc = None THEN TakeBySlic(lbs, slic)
                            ELSE <<>>
              /\ segm_gc' =
                    IF exc /= None THEN <<>>
                    ELSE IF runs
                    THEN TakeBySlic(
                             [k \in 1..MaxSuperpixels |->
                                 classif.classes_[lgc[k] + 1]], slic)
                    ELSE Zeros(TakeBySlic(lbs, slic))
    /\ UNCHANGED <<coreVars, boundaryVars, batchVars, trainVars, classif,
                   si_params, slic, params_local, saved_params, way>>

SegmentNext == SegmentImage

SpecSegment == SegmentInit /\ [][SegmentNext]_vars

(***************************************************************************)
(* Claims about segment_image.                                             *)
(***************************************************************************)
\* C14: with a classifier without predict_proba, and the file system
\* working, segment_image does not raise, does not call the graph cut
\* solver, and returns the hard-label segmentation labels[slic] in the place
\* of the graph cut result.
C14_FallbackToHardLabels ==
    (si_pc \in {"returned", "raised"} /\ ~classif.has_proba
       /\ si_error /= Some("IOError")) =>
        /\ si_pc = "returned"
        /\ solver_args = None
        /\ segm_gc = si_segm

\* the per-superpixel MAP labelling of a probability matrix, as pixels
MapSegm(pm) ==
    TakeBySlic([k \in 1..Len(pm) |-> classif.classes_[ArgMax(pm[k]) + 1]],
               slic)

\* C15: with gc_regul = 0 and the class probabilities available, segm_gc
\* gives every superpixel the class of maximal probability.
C15_ZeroRegulIsMap ==
    (si_pc = "returned" /\ si_params.gc_regul = 0 /\ proba /= None) =>
        segm_gc = MapSegm(proba[1])

\* C17: whenever predict_proba returned a matrix and gc_regul > 0 (and the
\* label transitions are there when they are used), the graph cut solver is
\* invoked with that matrix, whatever else failed, and 'not support
\* predict_proba' is not logged.
C17_SkipsOnlyWithoutCapability ==
    (si_pc \in {"returned", "raised"} /\ proba_ret /= None
       /\ si_params.gc_regul > 0
       /\ (si_params.gc_use_trans => si_params.label_transitions /= None)) =>
        /\ solver_args /= None
        /\ solver_args[1].proba = proba_ret[1]
        /\ ~warned

\* C23 as claimed: with gc_use_trans the solver gets the penalty matrix of
\* params['label_transitions'] in place of the scalar gc_regul, without
\* gc_use_trans it gets the scalar gc_regul.
C23_Claimed ==
    solver_args /= None =>
        solver_args[1].regul =
            IF si_params.gc_use_trans
            THEN [gc_regul |-> 1,
                  times |-> Some(compute_pairwise_cost_from_transitions(
                                     si_params.label_transitions[1]))]
            ELSE [gc_regul |-> si_params.gc_regul, times |-> None]

\* C23 amended: whenever segment_image calls the graph cut solver, its
\* regularisation argument is the scalar gc_regul when gc_use_trans is not
\* set, and the product of the scalar gc_regul and the penalty matrix of
\* params['label_transitions'] when it is set; the scalar is not dropped.
C23_ScalarTimesPenalty ==
    solver_args /= None =>
        /\ solver_args[1].regul.gc_regul = si_params.gc_regul
        /\ si_params.gc_use_trans =>
              /\ si_params.label_transitions /= None
              /\ solver_args[1].regul.times =
                    Some(compute_pairwise_cost_from_transitions(
                             si_params.label_transitions[1]))
        /\ ~si_params.gc_use_trans => solver_args[1].regul.times = None

\* C23 witness: a call with gc_regul = 2 and gc_use_trans returned after
\* the solver was given 2 times the penalty matrix.
C23_Witness ==
    /\ si_pc = "returned"
    /\ si_params.gc_use_trans
    /\ si_params.gc_regul = 2
    /\ solver_args /= None
    /\ solver_args[1].regul.gc_regul = 2
    /\ solver_args[1].regul.times /= None

(***************************************************************************)
(* The batch drivers main_predict, perform_predictions, experiment_loo and *)
(* experiment_lpo.                                                         *)
(*                                                                         *)
(* An image is a number 1..MaxImages, and the segmentation computed for    *)
(* image i is i.  A task is the list of images of one call of the wrapper: *)
(* one image, or the images held out together in experiment_lpo.           *)
(***************************************************************************)
MaxImages == 2

Images == 1..MaxImages

\* seg_clf.CrossValidatePOut(len(paths_img), nb_hold_out=2): the images
\* held out together, two by two
HoldOutSets ==
    [t \in 1..((MaxImages + 1) \div 2) |->
        IF 2 * t <= MaxImages THEN <<2 * t - 1, 2 * t>> ELSE <<2 * t - 1>>]

\* the arguments the wrapper is mapped over
Tasks(d) ==
    IF d = "experiment_lpo" THEN HoldOutSets
    ELSE [i \in Images |-> <<i>>]

\* whether the wrapper of the driver catches what segment_image raises:
\* only main_predict maps try_segment_image
CatchesPerImage(d) == d = "main_predict"

\* the images of a task segment_image is called on: all of them, or, when
\* nothing catches, those up to the first one that fails
RECURSIVE Reached(_, _)
Reached(task, d) ==
    IF task = <<>> THEN {}
    ELSE IF Head(task) \in failing /\ ~CatchesPerImage(d) THEN {Head(task)}
    ELSE {Head(task)} \cup Reached(Tail(task), d)

\* whether the call of the wrapper on the task raises
TaskRaises(task, d) ==
    ~CatchesPerImage(d) /\ \E k \in 1..Len(task) : task[k] \in failing

\* an assignment of the result of the task in the place of the update:
\* what was collected before is gone
RECURSIVE Collected_Overwrites(_, _)
Collected_Overwrites(d, task) ==
    IF task = <<>> THEN {}
    ELSE {<<img_names[Head(task)], Head(task)>>}
         \cup {e \in Collected_Overwrites(d, Tail(task)) :
                   e[1] /= img_names[Head(task)]}

\* dict_segms[name] = segm for every image of the task, in their order
RECURSIVE Collected(_, _)
Collected(d, task) ==
    IF task = <<>> THEN d
    ELSE Collected({e \in d : e[1] /= img_names[Head(task)]}
                       \cup {<<img_names[Head(task)], Head(task)>>},
                   Tail(task))

\* what the loop of the driver does with the result of a task: main_predict
\* drops it, the others store it
AfterResult(d, task) ==
    IF d = "main_predict" THEN dict_segms ELSE Collected(dict_segms, task)

BatchInit ==
    /\ b_pc = "run"
    /\ driver \in {"main_predict", "perform_predictions", "experiment_loo",
                   "experiment_lpo"}
    /\ pooled \in BOOLEAN
    /\ driver = "main_predict" => pooled
    /\ img_names \in [Images -> Images]
    /\ failing \in SUBSET Images
    /\ pending = DOMAIN Tasks(driver)
    /\ finished = {}
    /\ processed = {}
    /\ dict_segms = {}
    /\ collect_order = <<>>
    /\ FieldIdle
    /\ CritIdle
    /\ RansacIdle
    /\ OverlapIdle
    /\ BoundaryIdle
    /\ SegmentIdle
    /\ TrainIdle

\* nb_jobs = 1: the loop calls the wrapper on the next task and stores the
\* result; an exception of the wrapper leaves the loop and the driver
SequentialStep ==
    /\ b_pc = "run"
    /\ ~pooled
    /\ pending /= {}
    /\ LET t == MinOf(pending)
           task == Tasks(driver)[t]
       IN  /\ pending' = pending \ {t}
           /\ processed' = processed \cup Reached(task, driver)
           /\ IF TaskRaises(task, driver)
              THEN b_pc' = "raised"
                   /\ UNCHANGED <<dict_segms, collect_order>>
              ELSE b_pc' = "run"
                   /\ dict_segms' = AfterResult(driver, task)
                   /\ collect_order' = Append(collect_order, t)
    /\ UNCHANGED <<coreVars, boundaryVars, segmentVars, trainVars,
                   driver, pooled,
                   img_names, failing, finished>>

\* a worker of the pool runs the wrapper on a task; the workers go on
\* while the driver waits, also after the driver was left by an exception
WorkerRuns ==
    /\ b_pc \in {"run", "raised"}
    /\ pooled
    /\ \E t \in pending :
          /\ pending' = pending \ {t}
          /\ finished' = finished \cup {t}
          /\ processed' = processed \cup Reached(Tasks(driver)[t], driver)
    /\ UNCHANGED <<coreVars, boundaryVars, segmentVars, trainVars,
                   b_pc, driver, pooled,
                   img_names, failing, dict_segms, collect_order>>

\* the loop over imap_unordered takes the result of a finished task, in the
\* order of completion; the exception of a task is raised in the driver
CollectResult ==
    /\ b_pc = "run"
    /\ pooled
    /\ \E t \in finished :
          /\ finished' = finished \ {t}
          /\ IF TaskRaises(Tasks(driver)[t], driver)
             THEN b_pc' = "raised"
                  /\ UNCHANGED <<dict_segms, collect_order>>
             ELSE b_pc' = "run"
                  /\ dict_segms' = AfterResult(driver, Tasks(driver)[t])
                  /\ collect_order' = Append(collect_order, t)
    /\ UNCHANGED <<coreVars, boundaryVars, segmentVars, trainVars,
                   driver, pooled,
                   img_names, failing, pending, processed>>

\* the loop ran out: every task was taken
BatchDone ==
    /\ b_pc = "run"
    /\ pending = {}
    /\ finished = {}
    /\ b_pc' = "done"
    /\ UNCHANGED <<coreVars, boundaryVars, segmentVars, trainVars,
                   driver, pooled,
                   img_names, failing, pending, finished, processed,
                   dict_segms, collect_order>>

BatchNext ==
    \/ SequentialStep
    \/ WorkerRuns
    \/ CollectResult
    \/ BatchDone

SpecBatch == BatchInit /\ [][BatchNext]_vars

(***************************************************************************)
(* Claims about the batch drivers.                                         *)
(***************************************************************************)
\* C16: in every batch driver, sequential or pooled, the failure of one
\* image does not abort the batch: the driver is not left by an exception,
\* and when it ends segment_image was called on every image.
C16_FailureDoesNotAbortBatch ==
    /\ b_pc /= "raised"
    /\ b_pc = "done" => processed = Images

\* the dictionary the sequential branch builds from the tasks t..n
RECURSIVE SequentialDict(_, _, _)
SequentialDict(d, drv, t) ==
    IF t > Len(Tasks(drv)) THEN d
    ELSE SequentialDict(Collected(d, Tasks(drv)[t]), drv, t + 1)

\* the image names are distinct
DistinctNames ==
    \A i, j \in Images : i /= j => img_names[i] /= img_names[j]

C29_NeverFails ==
    ov_pc /= "raised"

\* the part of C29 that holds: the call fails only on a division by a size
\* of zero, and never when the ellipse is None or the canvas has no label
C29_FailsOnlyOnEmptySize ==
    ov_pc = "raised" =>
        /\ ellipse_mask /= None
        /\ \E lb \in 1..MaxSeq(segm_in) :
              MinSize(segm_in, lb, ellipse_mask[1]) = 0

\* C30: add_overlap_ellipse changes only pixels of the mask of the new
\* ellipse: a pixel outside the mask keeps its value, the pixels of the
\* mask all get the label when the ellipse is drawn and all keep their
\* values when it is not, and without an ellipse no pixel changes
C30_OnlyMaskPixelsChange ==
    ov_pc = "returned" =>
        IF ellipse_mask = None THEN segm = segm_in
        ELSE /\ \A p \in Pixels \ ellipse_mask[1] : segm[p] = segm_in[p]
             /\ \/ segm = segm_in
                \/ \A p \in ellipse_mask[1] : segm[p] = label
             /\ OverlapScan(segm_in, 1, ellipse_mask[1], thr_overlap) = "draw"
                    => \A p \in ellipse_mask[1] : segm[p] = label

\* an ellipse is drawn over a pixel of another object while a labelled
\* pixel outside the mask keeps its label
C30_Witness ==
    /\ ov_pc = "returned"
    /\ ellipse_mask /= None
    /\ segm /= segm_in
    /\ \E p \in ellipse_mask[1] : segm_in[p] /= label /\ segm[p] = label
    /\ \E p \in Pixels \ ellipse_mask[1] :
          segm_in[p] \notin {0, label} /\ segm[p] = segm_in[p]

\* ---- claim on the pair ransac_segm returns

\* C27: ransac_segm returns a consistent pair: the model and the inlier mask
\* are both None or both not None
C27_ModelAndMaskTogether ==
    pc = "returned" => (best_model = None <=> best_inliers = None)

\* the part of C27 that holds: a mask is never returned without a model
C27_MaskOnlyWithModel ==
    (pc = "returned" /\ best_inliers /= None) => best_model /= None

\* ------------------------------------------------------------------------
\* The training run: main_train dumps the training data and fits the
\* classifier, retrain_loo_segment_image and retrain_lpo_segment_image fit
\* it again on the dumped data without the held-out images
\* ------------------------------------------------------------------------

\* the images of the training list: one more than a batch holds, so that a
\* pair can be held out and an image is left to train on
TrainImages == 1..(MaxImages + 1)

\* row['path_image'] of the i-th row of the list: the paths are distinct
PathImage(i) == <<"path_image", i>>

\* SEGM_PARAMS['label_purity'], in percent
label_purity == 95

\* the normalised annotation histograms of a superpixel, in percent of
\* labels 0 and 1: one of exactly the demanded purity, one below it
LabelHists == {<<5, 95>>, <<60, 40>>}

\* the index column of the csv file: 1..n as the experiments count the
\* images, counted from zero, or with a row missing after the first one
CsvIndexes ==
    {[i \in TrainImages |-> i],
     [i \in TrainImages |-> i - 1],
     [i \in TrainImages |-> IF i = 1 THEN 1 ELSE i + 1]}

\* get_idx_name(idx, path_img): the key of an image in every dictionary,
\* kept as the pair of its arguments
GetIdxName(idx, path_img) == <<idx, path_img>>

\* np.argmax(label_hist, axis=1)
ArgmaxLabels(hists) ==
    [k \in DOMAIN hists |-> IF hists[k][1] >= hists[k][2] THEN 0 ELSE 1]

\* np.max(dict_label_hist[name], axis=1)
Purity(hist) == IF hist[1] >= hist[2] THEN hist[1] ELSE hist[2]

\* dict_labels[name][weights < params['label_purity']] = -1
Relabelled(lbs, hists) ==
    [k \in DOMAIN lbs |->
        IF Purity(hists[k]) < label_purity THEN -1 ELSE lbs[k]]

\* convert_set_features_labels_2_dataset(dict_features, dict_labels,
\* drop_labels=[-1]): the superpixels of the dictionaries the classifier is
\* fitted on, as <<image, superpixel>>
ConvertSetFeaturesLabels(d) ==
    UNION {{<<e[2].img, k>> : k \in {j \in DOMAIN e[2].labels :
                                        e[2].labels[j] /= -1}} : e \in d}

\* the keys of a dictionary
Keys(d) == {e[1] : e \in d}

\* a pop that leaves the dictionary as it was
Popped_Keeps(d, idx_name) == d

\* d.pop(idx_name, None)
Popped(d, idx_name) == {e \in d : e[1] /= idx_name}

\* the dictionaries after the loop over the held-out images (lines 473-476;
\* one image at lines 440-442)
RECURSIVE PoppedAll(_, _)
PoppedAll(d, list_imgs_idx_path) ==
    IF list_imgs_idx_path = <<>> THEN d
    ELSE PoppedAll(Popped(d, GetIdxName(Head(list_imgs_idx_path),
                                        PathImage(Head(list_imgs_idx_path)))),
                   Tail(list_imgs_idx_path))

\* what dataset_load_images_annot_compute_features returns and
\* save_dump_data stores: per name the image and the labels of its
\* superpixels
DumpOf(idx, hists) ==
    {<<GetIdxName(idx[i], PathImage(i)),
       [img |-> i, labels |-> ArgmaxLabels(hists[i])]>> : i \in TrainImages}

TrainInit ==
    /\ FieldIdle
    /\ CritIdle
    /\ RansacIdle
    /\ OverlapIdle
    /\ BoundaryIdle
    /\ SegmentIdle
    /\ BatchIdle
    /\ tr_pc = "start"
    /\ csv_index \in CsvIndexes
    /\ label_hist \in [TrainImages -> [1..MaxSuperpixels -> LabelHists]]
    /\ dump = {}
    /\ main_fit = None
    /\ held_out = <<>>
    /\ re_names = {}
    /\ re_fit = None
    /\ tr_error = None

\* main_train, lines 697-735: the data are computed (or loaded from an
\* earlier dump of the same data) and dumped, then the labels of the impure
\* superpixels are set to -1 in the dictionaries at hand and the classifier
\* is fitted on the remaining ones
MainTrain ==
    /\ tr_pc = "start"
    /\ dump' = DumpOf(csv_index, label_hist)
    /\ main_fit' = Some(ConvertSetFeaturesLabels(
            {<<e[1], [img |-> e[2].img,
                      labels |-> Relabelled(e[2].labels,
                                            label_hist[e[2].img])]>> :
                e \in DumpOf(csv_index, label_hist)}))
    /\ tr_pc' = "trained"
    /\ UNCHANGED <<coreVars, boundaryVars, segmentVars, batchVars, csv_index,
                   label_hist, held_out, re_names, re_fit, tr_error>>

\* lines 434-448 and 466-482: the dumped dictionaries without the held-out
\* names, the assertion on their number, the fit
Retrain(list_imgs_idx_path) ==
    /\ tr_pc = "trained"
    /\ held_out' = list_imgs_idx_path
    /\ LET dict_features == PoppedAll(dump, list_imgs_idx_path)
           dropped == Cardinality(Keys(dump)) - Cardinality(Keys(dict_features))
       IN  IF dropped = Len(list_imgs_idx_path)
           THEN /\ re_names' = Keys(dict_features)
                /\ re_fit' = Some(ConvertSetFeaturesLabels(dict_features))
                /\ tr_error' = None
                /\ tr_pc' = "retrained"
           ELSE /\ tr_error' = Some("AssertionError")
                /\ tr_pc' = "raised"
                /\ UNCHANGED <<re_names, re_fit>>
    /\ UNCHANGED <<coreVars, boundaryVars, segmentVars, batchVars, csv_index,
                   label_hist, dump, main_fit>>

\* experiment_loo, lines 548 and 554: one image of the list, numbered from 1
RetrainLoo == \E i \in TrainImages : Retrain(<<i>>)

\* experiment_lpo, lines 593-602: the images seg_clf.CrossValidatePOut holds
\* out together, with the same numbers
RetrainLpo ==
    \E i, j \in TrainImages : i < j /\ Retrain(<<i, j>>)

TrainNext ==
    \/ MainTrain
    \/ RetrainLoo
    \/ RetrainLpo

SpecTrain == TrainInit /\ [][TrainNext]_vars

\* ---- claims on the training run

\* the names get_idx_name gives the held-out images
HeldNames ==
    {GetIdxName(held_out[k], PathImage(held_out[k])) : k \in DOMAIN held_out}

\* C25: a retraining is fitted on exactly the dumped entries without the
\* held-out ones (no held-out name is left, every other dumped name is, and
\* only their superpixels are fitted), and it fails with the assertion,
\* before any fit, when the number of entries removed differs from the
\* number of images held out
C25_RetrainedWithoutHeldOut ==
    tr_pc \in {"retrained", "raised"} =>
        IF Cardinality(HeldNames \cap Keys(dump)) = Len(held_out)
        THEN /\ tr_pc = "retrained"
             /\ re_names \cap HeldNames = {}
             /\ re_names = Keys(dump) \ HeldNames
             /\ re_fit /= None
             /\ re_fit[1] \subseteq
                    {<<e[2].img, k>> : e \in {x \in dump : x[1] \notin HeldNames},
                                       k \in 1..MaxSuperpixels}
        ELSE /\ tr_pc = "raised"
             /\ tr_error = Some("AssertionError")
             /\ re_fit = None

\* two images of three are held out and found in the dump: the classifier
\* is fitted on the third one
C25_Witness ==
    /\ tr_pc = "retrained"
    /\ held_out = <<1, 2>>
    /\ Cardinality(Keys(dump)) = 3
    /\ re_names = {GetIdxName(3, PathImage(3))}
    /\ re_fit /= None
    /\ \E k \in 1..MaxSuperpixels : <<3, k>> \in re_fit[1]

\* the superpixels of a fit all have at least the demanded purity
PureFit(fit) ==
    fit /= None =>
        \A sp \in fit[1] : Purity(label_hist[sp[1]][sp[2]]) >= label_purity

\* C26: every classifier fitted in the training run, the main one and the
\* retrained ones, is fitted only on superpixels whose purity is at least
\* label_purity
C26_EveryFitOnPureSuperpixels ==
    PureFit(main_fit) /\ PureFit(re_fit)

\* the part of C26 that holds: the fit of main_train
C26_MainFitOnPureSuperpixels ==
    PureFit(main_fit)

\* ------------------------------------------------------------------------
\* The ways the parameters handed to segment_image are assembled
\* ------------------------------------------------------------------------

\* the parameters of a run: SEGM_PARAMS with the values of the command line;
\* the key 'label_transitions' is not among them
LocalParams ==
    {[gc_regul |-> g, gc_use_trans |-> u, label_transitions |-> None] :
        g \in {0, 1, 2}, u \in BOOLEAN}

\* seg_gc.count_label_transitions_connected_segments(dict_slics, dict_labels)
CountLabelTransitions == <<<<3, 1>>, <<1, 3>>>>

\* main_train, lines 719-722: the transitions are counted when gc_use_trans
\* is set
WithTransitions(prm) ==
    IF prm.gc_use_trans
    THEN [prm EXCEPT !.label_transitions = Some(CountLabelTransitions)]
    ELSE prm

\* the parameters a classifier file holds: those of the main_train that
\* trained and exported it
SavedParams == {WithTransitions(prm) : prm \in LocalParams}

\* params.update({k: params_local[k] for k in params_local
\*                if k.startswith('path_') or k.startswith('gc_')})
Updated(prm, local) ==
    [prm EXCEPT !.gc_regul = local.gc_regul,
                !.gc_use_trans = local.gc_use_trans]

ParamsInit ==
    /\ si_pc = "assemble"
    /\ classif \in {[has_proba |-> h, classes_ |-> <<0, 1>>] : h \in BOOLEAN}
    /\ si_params = None
    /\ params_local \in {None} \cup {Some(prm) : prm \in LocalParams}
    /\ saved_params \in {None} \cup {Some(prm) : prm \in SavedParams}
    /\ way = "none"
    /\ slic = SlicMap(MaxSuperpixels)
    /\ proba_ret = None
    /\ proba = None
    /\ si_segm = <<>>
    /\ segm_gc = <<>>
    /\ warned = FALSE
    /\ solver_args = None
    /\ si_error = None
    /\ FieldIdle
    /\ CritIdle
    /\ RansacIdle
    /\ OverlapIdle
    /\ BoundaryIdle
    /\ BatchIdle
    /\ TrainIdle

\* what every way leaves alone
AssembleFrame ==
    UNCHANGED <<coreVars, boundaryVars, batchVars, trainVars, classif, slic,
                proba_ret, proba, si_segm, segm_gc, warned, solver_args,
                si_error, params_local, saved_params>>

\* main_train without a classifier file: lines 719-722, then the else
\* branch of load_train_classifier (lines 658-664), which trains with the
\* parameters at hand
MainTrainParams ==
    /\ si_pc = "assemble"
    /\ params_local /= None
    /\ saved_params = None
    /\ si_params' = WithTransitions(params_local[1])
    /\ way' = "main_train"
    /\ si_pc' = "call"
    /\ AssembleFrame

\* main_train with a classifier file: load_train_classifier, lines 648-656,
\* takes the saved parameters and the 'path_' and 'gc_' keys of the local
\* ones, which main_train has completed at lines 719-722
LoadTrainClassifier ==
    /\ si_pc = "assemble"
    /\ params_local /= None
    /\ saved_params /= None
    /\ si_params' = Updated(saved_params[1], WithTransitions(params_local[1]))
    /\ way' = "load_train_classifier"
    /\ si_pc' = "call"
    /\ AssembleFrame

\* main_predict, lines 805-810
MainPredictParams ==
    /\ si_pc = "assemble"
    /\ saved_params /= None
    /\ si_params' = IF params_local /= None
                    THEN Updated(saved_params[1], params_local[1])
                    ELSE saved_params[1]
    /\ way' = "main_predict"
    /\ si_pc' = "call"
    /\ AssembleFrame

ParamsNext ==
    \/ MainTrainParams
    \/ LoadTrainClassifier
    \/ MainPredictParams
    \/ SegmentImage

SpecParams == ParamsInit /\ [][ParamsNext]_vars

\* ---- claim on the assembled parameters

\* C28: whenever segment_image reaches the graph-cut step with gc_use_trans
\* set, the parameters hold 'label_transitions', whichever way they were
\* assembled
C28_TransitionsPresentWhenUsed ==
    (si_pc \in {"returned", "raised"} /\ RunsGraphCut(proba, si_params)
        /\ si_params.gc_use_trans) =>
            si_params.label_transitions /= None

\* the part of C28 that holds: the parameters main_train assembles when it
\* trains the classifier itself
C28_TransitionsPresentAfterTraining ==
    (si_pc \in {"call", "returned", "raised"} /\ way = "main_train"
        /\ si_params.gc_use_trans) =>
            si_params.label_transitions /= None

====
